---- MODULE Spec2Model ----
(***************************************************************************)
(* A model of the slop-score text-analytics engine (utils.ts,              *)
(* contrast-detector.ts, wordfreq.ts, metrics.ts) and of the afk-viewer    *)
(* (the useWebSocket hook, session-utils.ts, watcher.ts).                  *)
(*                                                                         *)
(* Texts are sequences of characters; a character is a one-symbol string.  *)
(* Offsets are 0-based as in the source: the character at offset i of a    *)
(* text t is t[i + 1].                                                     *)
(***************************************************************************)
EXTENDS Integers, Sequences, FiniteSets, TLC

\* ------------------------------------------------------------------ bounds
\* longest text handed to the text utilities
MaxTextLen == 4
\* longest document handed to the contrast detector
MaxDocLen == 3
\* most regex matches one extractContrastMatches call finds (both stages)
MaxMatches == 3
\* most buckets of a frequency file
MaxBuckets == 2
\* longest argument of zipfFrequency
MaxInputLen == 3
\* longest text handed to analyzeText, the listed longer ones apart
MaxAnalyzeLen == 2
\* longest token list of the direct calls
MaxTokens == 4
\* largest window of computeMATTR
MaxWindow == 3
\* the greatest topK passed to rankOveruseWithCounts
MaxTopK == 2
\* the parts a normalised value is resolved to
NormUnit == 100

VARIABLES
    called,     \* the operation applied last ("none" right after construction)
    text,       \* the input text of the call
    spans,      \* sentenceSpans: the [start, end] tuples returned
    tagger,     \* pos-tagger.ts: the tagger created at module load, Null for none
    regexLastIndex,  \* the lastIndex of the shared Stage 1 and Stage 2 regex
                \* objects, and whether the Stage 2 regex has the flag y
    tNorm,      \* extractContrastMatches: the normalised text
    pieces,     \* extractContrastMatches: the piece table of the tagged stream
    candidates, \* extractContrastMatches: the candidate intervals of both stages
    merged,     \* extractContrastMatches: the merged intervals
    results,    \* extractContrastMatches: the ContrastMatch list returned
    scoreArgs,  \* computeSlopScore: <<wordScore, trigramScore, contrastRate>>
    slopScore,  \* computeSlopScore: the value returned
    prevArgs,   \* computeSlopScore: the arguments of the call before
    prevScore,  \* computeSlopScore: the value the call before returned
    wfData,     \* loadWordfreq: the decoded file (a local of the call)
    wordfreq,   \* the WordfreqEn table, Null while there is none
    zipfInput,  \* zipfFrequency: the argument
    zipfValue,  \* zipfFrequency: the value returned
    slopWords,        \* metrics.ts: the slop word lexicon
    slopBigrams,      \* metrics.ts: the slop bigram lexicon
    slopTrigrams,     \* metrics.ts: the slop trigram lexicon
    humanBigramFreq,  \* metrics.ts: the human bigram baseline, an ordered map
    humanTrigramFreq, \* metrics.ts: the human trigram baseline, an ordered map
    loading,          \* loadAllData: the call made last and its loads, Null for none
    callArgs,         \* the arguments of the last metrics call
    callResult,       \* what the last metrics call returned
    hookOptions,      \* useWebSocket: the options of the mounted hook, Null before
    isConnected,      \* useWebSocket: state isConnected
    isLoading,        \* useWebSocket: state isLoading
    error,            \* useWebSocket: state error, NoError for null
    projects,         \* useWebSocket: state projects, an ordered map
    wsRef,            \* useWebSocket: wsRef.current, a socket number, 0 for null
    reconnectAttemptRef,  \* useWebSocket: reconnectAttemptRef.current
    reconnectTimeoutRef,  \* useWebSocket: reconnectTimeoutRef.current, a timer
                      \* number, 0 for null
    isUnmountedRef,   \* useWebSocket: isUnmountedRef.current
    sockets,          \* the WebSocket objects the hook created: their readyState
    hookTimers,       \* the timers the hook has set: delay and state
    reconnects,       \* the runs of the hook's effect, the reconnecting connect()
                      \* calls since the last open, the opens so far and the
                      \* close event handled last
    files,            \* watcher.ts: the session files on disk, by key; whether
                      \* a file was there at start-up and how often it was deleted
    fileStates,       \* createWatcher: the map fileStates, Null for no entry
    debounceTimers,   \* createWatcher: the map debounceTimers, 0 for no entry
    timers,           \* the pending timers of the watcher
    passes,           \* the processing passes (timer callbacks) in flight
    emitted,          \* the watcher events invoked so far, by key
    debounceLog       \* by key: change events seen, time since the last one,
                      \* bursts begun and passes started

varsUtils == <<called, text, spans>>
varsContrast == <<tagger, regexLastIndex, tNorm, pieces, candidates, merged, results>>
varsScore == <<scoreArgs, slopScore, prevArgs, prevScore>>
varsWordfreq == <<wfData, wordfreq, zipfInput, zipfValue>>
varsStores == <<slopWords, slopBigrams, slopTrigrams, humanBigramFreq, humanTrigramFreq,
                loading>>
varsCall == <<callArgs, callResult>>
varsHook == <<hookOptions, isConnected, isLoading, error, projects, wsRef,
              reconnectAttemptRef, reconnectTimeoutRef, isUnmountedRef, sockets,
              hookTimers, reconnects>>
varsWatcher == <<files, fileStates, debounceTimers, timers, passes, emitted,
                 debounceLog>>
varsViewer == <<varsHook, varsWatcher>>
varsAnalysis == <<varsUtils, varsContrast, varsScore, varsWordfreq, varsStores, varsCall>>
vars == <<varsAnalysis, varsViewer>>

\* ----------------------------------------------------------------- helpers
Min2(a, b) == IF a <= b THEN a ELSE b
Max2(a, b) == IF a >= b THEN a ELSE b

\* all sequences over S of length 0..n
SeqsUpTo(S, n) == UNION {[1..k -> S] : k \in 0..n}

\* text.substring(from, to) for 0 <= from <= to <= Len(text)
Substring(t, from, to) == SubSeq(t, from + 1, to)

\* the absent value of an optional tuple (null)
Null == <<>>

\* ------------------------------------------------------------ utils.ts
\* characters of the text-utility inputs: a letter, a blank, two sentence
\* terminators and a curly apostrophe (U+2019)
TextChars == {"a", " ", ".", "!", "RSQUO", "LDQUO", "EMDASH"}

IsTerminator(c) == c \in {".", "!", "?"}

\* [^.!?]* taken greedily from offset q: the offset of the first terminator
\* at or after q, or Len(t) when there is none
RECURSIVE SkipNonTerminators(_, _)
SkipNonTerminators(t, q) ==
    IF q < Len(t) /\ ~IsTerminator(t[q + 1])
    THEN SkipNonTerminators(t, q + 1)
    ELSE q

\* one attempt of /[^.!?]*[.!?]/s anchored at offset p: the end offset of the
\* match, or -1
SentSplitAt(t, p) ==
    LET q == SkipNonTerminators(t, p)
    IN IF q < Len(t) /\ IsTerminator(t[q + 1]) THEN q + 1 ELSE -1

\* sentSplit.exec(text) with the given lastIndex: the leftmost match at or
\* after lastIndex as <<index, end>>, or Null
RECURSIVE SentSplitExec(_, _)
SentSplitExec(t, lastIndex) ==
    IF lastIndex > Len(t) THEN Null
    ELSE IF SentSplitAt(t, lastIndex) # -1
         THEN <<lastIndex, SentSplitAt(t, lastIndex)>>
         ELSE SentSplitExec(t, lastIndex + 1)

\* the while loop of sentenceSpans: <<spans, lastEnd>> when exec returns null
RECURSIVE SentenceLoop(_, _, _, _)
SentenceLoop(t, lastIndex, acc, lastEnd) ==
    LET m == SentSplitExec(t, lastIndex)
    IN IF m = Null THEN <<acc, lastEnd>>
       ELSE SentenceLoop(t, m[2], Append(acc, <<m[1], m[2]>>), m[2])

\* sentenceSpans with the trailing span left out
sentenceSpans_noTail(t) == SentenceLoop(t, 0, <<>>, 0)[1]

sentenceSpans(t) ==
    LET r == SentenceLoop(t, 0, <<>>, 0)
        lastEnd == r[2]
    IN IF lastEnd < Len(t) THEN Append(r[1], <<lastEnd, Len(t)>>) ELSE r[1]

\* the replacements of normalizeText, in the order Object.entries yields them:
\* curly double quotes, curly single quotes, em dash, en dash
replacements ==
    << <<"LDQUO", "\"">>, <<"RDQUO", "\"">>,
       <<"LSQUO", "'">>, <<"RSQUO", "'">>,
       <<"EMDASH", "-">>, <<"ENDASH", "-">> >>

\* text.replace(new RegExp(old, 'g'), newChar) for a one-character old
RECURSIVE ReplaceAll(_, _, _)
ReplaceAll(t, old, newChar) ==
    IF t = <<>> THEN <<>>
    ELSE <<IF t[1] = old THEN newChar ELSE t[1]>> \o ReplaceAll(Tail(t), old, newChar)

\* the for loop of normalizeText from entry i on
RECURSIVE NormalizeLoop(_, _)
NormalizeLoop(t, i) ==
    IF i > Len(replacements) THEN t
    ELSE NormalizeLoop(ReplaceAll(t, replacements[i][1], replacements[i][2]), i + 1)

\* a normalizeText that drops the dashes instead of replacing them
normalizeText_dropDash(t) ==
    SelectSeq(NormalizeLoop(t, 1), LAMBDA c : c # "-")

normalizeText(t) == NormalizeLoop(t, 1)

IsSpace(c) == c \in {" ", "\n", "\t"}

\* String.prototype.trim
RECURSIVE TrimStart(_)
TrimStart(t) ==
    IF t # <<>> /\ IsSpace(t[1]) THEN TrimStart(Tail(t)) ELSE t
RECURSIVE TrimEnd(_)
TrimEnd(t) ==
    IF t # <<>> /\ IsSpace(t[Len(t)]) THEN TrimEnd(SubSeq(t, 1, Len(t) - 1)) ELSE t
Trim(t) == TrimEnd(TrimStart(t))

\* text.indexOf(value, from) for a non-empty value: the least offset p >= from
\* where value occurs, or -1
RECURSIVE IndexOf(_, _, _)
IndexOf(t, value, from) ==
    IF from + Len(value) > Len(t) THEN -1
    ELSE IF Substring(t, from, from + Len(value)) = value THEN from
    ELSE IndexOf(t, value, from + 1)

\* ------------------------------------------------- contrast-detector.ts
\* the while loop of bisectRight over the 0-based window [lo, hi)
RECURSIVE BisectRightLoop(_, _, _, _)
BisectRightLoop(arr, val, lo, hi) ==
    IF lo < hi
    THEN LET mid == (lo + hi) \div 2
         IN IF arr[mid + 1] <= val
            THEN BisectRightLoop(arr, val, mid + 1, hi)
            ELSE BisectRightLoop(arr, val, lo, mid)
    ELSE lo

bisectRight(arr, val) == BisectRightLoop(arr, val, 0, Len(arr))

RECURSIVE BisectLeftLoop(_, _, _, _)
BisectLeftLoop(arr, val, lo, hi) ==
    IF lo < hi
    THEN LET mid == (lo + hi) \div 2
         IN IF arr[mid + 1] < val
            THEN BisectLeftLoop(arr, val, mid + 1, hi)
            ELSE BisectLeftLoop(arr, val, lo, mid)
    ELSE lo

bisectLeft(arr, val) == BisectLeftLoop(arr, val, 0, Len(arr))

\* coveredSentenceRange that searches the ends with bisectLeft
coveredSentenceRange_left(sp, start, end) ==
    IF Len(sp) = 0 \/ start >= end THEN Null
    ELSE LET starts == [i \in 1..Len(sp) |-> sp[i][1]]
             ends == [i \in 1..Len(sp) |-> sp[i][2]]
             lo == bisectLeft(ends, start)
             hi == bisectLeft(starts, end) - 1
         IN IF lo >= Len(sp) \/ hi < 0 \/ lo > hi THEN Null ELSE <<lo, hi>>

\* the 0-based span-index range [lo, hi] covering [start, end), or Null
coveredSentenceRange(sp, start, end) ==
    IF Len(sp) = 0 \/ start >= end THEN Null
    ELSE LET starts == [i \in 1..Len(sp) |-> sp[i][1]]
             ends == [i \in 1..Len(sp) |-> sp[i][2]]
             lo == bisectRight(ends, start)
             hi == bisectLeft(starts, end) - 1
         IN IF lo >= Len(sp) \/ hi < 0 \/ lo > hi THEN Null ELSE <<lo, hi>>

\* the comparator of mergeIntervals' sort: a sorts strictly before b
IntervalBefore(a, b) ==
    IF a.lo # b.lo THEN a.lo < b.lo
    ELSE IF a.hi # b.hi THEN a.hi < b.hi
    ELSE a.raw_start < b.raw_start

\* Array.prototype.sort is stable: an item goes after every item that does not
\* sort strictly after it
RECURSIVE InsertSorted(_, _)
InsertSorted(sorted, it) ==
    IF sorted = <<>> THEN <<it>>
    ELSE IF IntervalBefore(it, sorted[Len(sorted)])
         THEN Append(InsertSorted(SubSeq(sorted, 1, Len(sorted) - 1), it),
                     sorted[Len(sorted)])
         ELSE Append(sorted, it)

RECURSIVE SortIntervals(_)
SortIntervals(items) ==
    IF items = <<>> THEN <<>>
    ELSE InsertSorted(SortIntervals(SubSeq(items, 1, Len(items) - 1)),
                      items[Len(items)])

\* the merge test with a strict comparison: touching intervals stay apart
Overlaps_strict(it, cur) == it.lo < cur.hi

\* mergeIntervals' test for folding the next item into the current group
Overlaps(it, cur) == it.lo <= cur.hi

\* the for loop of mergeIntervals with the group taking the hi of the item
\* folded in last
RECURSIVE MergeLoop_lastHi(_, _, _, _)
MergeLoop_lastHi(itemsSorted, i, acc, cur) ==
    IF i > Len(itemsSorted) THEN Append(acc, cur)
    ELSE LET it == itemsSorted[i]
         IN IF Overlaps(it, cur)
            THEN MergeLoop_lastHi(itemsSorted, i + 1, acc,
                     [cur EXCEPT !.hi = it.hi,
                                 !.raw_end = Max2(cur.raw_end, it.raw_end)])
            ELSE MergeLoop_lastHi(itemsSorted, i + 1, Append(acc, cur), it)

\* the for loop of mergeIntervals from item i on, with the groups pushed so
\* far and the current group
RECURSIVE MergeLoop(_, _, _, _)
MergeLoop(itemsSorted, i, acc, cur) ==
    IF i > Len(itemsSorted) THEN Append(acc, cur)
    ELSE LET it == itemsSorted[i]
         IN IF Overlaps(it, cur)
            THEN MergeLoop(itemsSorted, i + 1, acc,
                     [cur EXCEPT !.hi = Max2(cur.hi, it.hi),
                                 !.raw_end = Max2(cur.raw_end, it.raw_end)])
            ELSE MergeLoop(itemsSorted, i + 1, Append(acc, cur), it)

mergeIntervals(items) ==
    IF Len(items) = 0 THEN <<>>
    ELSE LET itemsSorted == SortIntervals(items)
         IN MergeLoop(itemsSorted, 2, <<>>, itemsSorted[1])

\* ------------------------------------------------------------- numbers
\* A JavaScript number is modelled as an exact rational <<n, d>> in lowest
\* terms with d > 0, or as one of the non-finite values below. An operation
\* on a non-finite operand gives NaN.
NaN == <<0, 0>>
PosInfinity == <<1, 0>>
NegInfinity == <<-1, 0>>

IsFinite(x) == x[2] # 0

Abs(n) == IF n < 0 THEN -n ELSE n

RECURSIVE Gcd(_, _)
Gcd(a, b) == IF b = 0 THEN a ELSE Gcd(b, a % b)

\* the rational n / d for d > 0
Frac(n, d) == LET g == Gcd(Abs(n), d) IN <<n \div g, d \div g>>

Num(n) == <<n, 1>>

\* a / b, with JavaScript's answers for a zero divisor
NumDiv(a, b) ==
    IF ~IsFinite(a) \/ ~IsFinite(b) THEN NaN
    ELSE IF b[1] = 0 THEN (IF a[1] = 0 THEN NaN
                           ELSE IF a[1] > 0 THEN PosInfinity ELSE NegInfinity)
    ELSE IF b[1] > 0 THEN Frac(a[1] * b[2], a[2] * b[1])
    ELSE Frac(-(a[1] * b[2]), a[2] * (-b[1]))

NumMul(a, b) ==
    IF ~IsFinite(a) \/ ~IsFinite(b) THEN NaN
    ELSE Frac(a[1] * b[1], a[2] * b[2])

NumAdd(a, b) ==
    IF ~IsFinite(a) \/ ~IsFinite(b) THEN NaN
    ELSE Frac(a[1] * b[2] + b[1] * a[2], a[2] * b[2])

NumSub(a, b) ==
    IF ~IsFinite(a) \/ ~IsFinite(b) THEN NaN
    ELSE Frac(a[1] * b[2] - b[1] * a[2], a[2] * b[2])

\* a <= b and a < b on finite numbers
NumLeq(a, b) == a[1] * b[2] <= b[1] * a[2]
NumLess(a, b) == a[1] * b[2] < b[1] * a[2]

\* Math.max(a, b): NaN when either is
NumMax(a, b) ==
    IF ~IsFinite(a) \/ ~IsFinite(b) THEN NaN
    ELSE IF NumLeq(a, b) THEN b ELSE a

\* ------------------------------------------- metrics.ts: composite score
\* normalizeValue's quotient is kept to 1 / One, rounded down
One == NormUnit

\* NORMALIZATION_RANGES, in thousandths
NORMALIZATION_RANGES ==
    [slop_words |-> [min |-> 2121, max |-> 43925],
     slop_trigrams |-> [min |-> -27, max |-> 1229],
     contrast |-> [min |-> -32, max |-> 888]]

\* normalizeValue without the clamp
Clamp01_none(normalized) == normalized

\* Math.max(0, Math.min(1, normalized)) in units of 1 / One
Clamp01(normalized) == Max2(0, Min2(One, normalized))

\* normalizeValue(value, range) in units of 1 / One
normalizeValue(value, range) ==
    LET normalized == ((value[1] * 1000 - range.min * value[2]) * One)
                         \div (value[2] * (range.max - range.min))
    IN Clamp01(normalized)

\* computeSlopScore with the weights of contrast and trigrams exchanged
computeSlopScore_swapped(wordScore, trigramScore, contrastRate) ==
    LET normWords == normalizeValue(wordScore, NORMALIZATION_RANGES.slop_words)
        normTrigrams == normalizeValue(trigramScore, NORMALIZATION_RANGES.slop_trigrams)
        normContrast == normalizeValue(contrastRate, NORMALIZATION_RANGES.contrast)
    IN Frac(normWords * 60 + normContrast * 15 + normTrigrams * 25, One)

\* computeSlopScore: (normWords * 0.6 + normContrast * 0.25 + normTrigrams * 0.15) * 100
computeSlopScore(wordScore, trigramScore, contrastRate) ==
    LET normWords == normalizeValue(wordScore, NORMALIZATION_RANGES.slop_words)
        normTrigrams == normalizeValue(trigramScore, NORMALIZATION_RANGES.slop_trigrams)
        normContrast == normalizeValue(contrastRate, NORMALIZATION_RANGES.contrast)
    IN Frac(normWords * 60 + normContrast * 25 + normTrigrams * 15, One)

\* ---------------------------------------------------------- wordfreq.ts
\* uncurlQuotes: the four replaceAll calls
uncurlQuotes(s) ==
    ReplaceAll(ReplaceAll(ReplaceAll(ReplaceAll(s, "LSQUO", "'"), "RSQUO", "'"),
                          "LDQUO", "\""), "RDQUO", "\"")

\* toLocaleLowerCase('en') on the letters of the model
LowerChar(c) == IF c = "A" THEN "a" ELSE IF c = "B" THEN "b" ELSE IF c = "X" THEN "x" ELSE c

RECURSIVE ToLowerCase(_)
ToLowerCase(s) ==
    IF s = <<>> THEN <<>> ELSE <<LowerChar(s[1])>> \o ToLowerCase(Tail(s))

normalizeWord_en(s) == Trim(ToLowerCase(uncurlQuotes(s)))

\* [A-Za-z0-9]
IsAlnum(c) == c \in {"a", "b", "x", "A", "B", "X", "0", "1"}

\* [A-Za-z0-9]+ taken greedily from offset p: the end offset of the run
RECURSIVE AlnumRunEnd(_, _)
AlnumRunEnd(s, p) ==
    IF p < Len(s) /\ IsAlnum(s[p + 1]) THEN AlnumRunEnd(s, p + 1) ELSE p

\* (?:['-][A-Za-z0-9]+)* taken greedily from offset p
RECURSIVE WordTailEnd(_, _)
WordTailEnd(s, p) ==
    IF p + 1 < Len(s) /\ s[p + 1] \in {"'", "-"} /\ IsAlnum(s[p + 2])
    THEN WordTailEnd(s, AlnumRunEnd(s, p + 1))
    ELSE p

\* text.match(WORD_RE) ?? []: the matches from offset p on
RECURSIVE WordMatches(_, _)
WordMatches(s, p) ==
    IF p >= Len(s) THEN <<>>
    ELSE IF IsAlnum(s[p + 1])
         THEN LET e == WordTailEnd(s, AlnumRunEnd(s, p))
              IN <<Substring(s, p, e)>> \o WordMatches(s, e)
         ELSE WordMatches(s, p + 1)

\* map.get(w) ?? minZipf
GetZipf(wf, w) == IF w \in DOMAIN wf.map THEN wf.map[w] ELSE wf.minZipf

\* the token loop of combineZipfSimple taking the greatest value
MaxZipf(z, v) == IF z = PosInfinity THEN v ELSE IF NumLeq(z, v) THEN v ELSE z

\* Math.min(z, getZipf(t)) with z = Infinity at first
MinZipf(z, v) == IF z = PosInfinity THEN v ELSE IF NumLeq(v, z) THEN v ELSE z

\* the for loop of combineZipfSimple from token i on
RECURSIVE CombineLoop(_, _, _, _)
CombineLoop(wf, tokens, i, z) ==
    IF i > Len(tokens) THEN z
    ELSE CombineLoop(wf, tokens, i + 1, MinZipf(z, GetZipf(wf, tokens[i])))

combineZipfSimple(wf, tokens) ==
    IF Len(tokens) = 0 THEN Num(0)
    ELSE LET z == CombineLoop(wf, tokens, 1, PosInfinity)
         IN IF IsFinite(z) THEN z ELSE Num(0)

\* an argument of zipfFrequency: a string, or null, undefined or a number
StringArg(s) == [type |-> "string", value |-> s]
OtherArgs == {[type |-> "null", value |-> <<>>],
              [type |-> "undefined", value |-> <<>>],
              [type |-> "number", value |-> <<>>]}

\* WordfreqEn.zipfFrequency(input) on the table wf
zipfFrequency(wf, input) ==
    IF input.type # "string" \/ input.value = <<>> THEN Num(0)
    ELSE LET txt == normalizeWord_en(input.value)
             tokens == WordMatches(txt, 0)
         IN IF Len(tokens) > 1 THEN combineZipfSimple(wf, tokens)
            ELSE GetZipf(wf, txt)

\* map.set(w, zipf)
MapSet(map, w, zipf) ==
    [k \in DOMAIN map \cup {w} |-> IF k = w THEN zipf ELSE map[k]]

\* the inner loop of loadWordfreq over the words of one bucket
RECURSIVE SetWords(_, _, _, _)
SetWords(map, words, zipf, k) ==
    IF k > Len(words) THEN map
    ELSE SetWords(MapSet(map, words[k], zipf), words, zipf, k + 1)

\* a bucket that is null rather than a list of words
NoBucket == [isArray |-> FALSE, words |-> <<>>]
Bucket(ws) == [isArray |-> TRUE, words |-> ws]

\* the outer loop of loadWordfreq; bins[i + 1] is the bucket of index i
RECURSIVE BinsLoop(_, _, _)
BinsLoop(bins, i, map) ==
    IF i >= Len(bins) THEN map
    ELSE LET b == bins[i + 1]
         IN IF b.isArray /\ Len(b.words) > 0
            THEN LET cB == -i
                     zipf == Frac(cB + 900, 100)
                 IN BinsLoop(bins, i + 1, SetWords(map, b.words, zipf, 1))
            ELSE BinsLoop(bins, i + 1, map)

\* the header test of loadWordfreq without the version test
HeaderOk_noVersion(header) ==
    /\ header.present
    /\ header.format = "cB"

\* the header test of loadWordfreq
HeaderOk(header) ==
    /\ header.present
    /\ header.format = "cB"
    /\ header.version = 1

\* loadWordfreq on the decoded file: the table, or Null when it throws
loadWordfreq(data) ==
    IF ~HeaderOk(data.header) THEN Null
    ELSE [map |-> BinsLoop(data.bins, 0, <<>>), minZipf |-> Num(0)]

\* ------------------------------------------------------- pos-tagger.ts
\* const tagger = posTagger(): the tagger object the factory returns
PosTagger == [name |-> "wink-pos-tagger"]

\* hasPosTagger taken as true whatever the tagger is
hasPosTagger_always == TRUE

\* hasPosTagger(): tagger !== null
hasPosTagger == tagger # Null

\* the placeholder a verb is replaced by
VERB == <<"V", "E", "R", "B">>

IsLetter(c) == c \in {"a", "b"}

\* the end offset of the token starting at offset p: a run of letters, or one
\* other character
RECURSIVE TokenEnd(_, _)
TokenEnd(t, p) ==
    IF ~IsLetter(t[p + 1]) THEN p + 1
    ELSE IF p + 1 < Len(t) /\ IsLetter(t[p + 2]) THEN TokenEnd(t, p + 1)
    ELSE p + 1

\* the token values the tagger cuts the text into, from offset p on
RECURSIVE TokenValues(_, _)
TokenValues(t, p) ==
    IF p >= Len(t) THEN <<>>
    ELSE IF IsSpace(t[p + 1]) THEN TokenValues(t, p + 1)
    ELSE <<Substring(t, p, TokenEnd(t, p))>> \o TokenValues(t, TokenEnd(t, p))

\* tagger.tagSentence(text): every tagging of the tokens; only words can be
\* tagged as verbs
tagSentence(t) ==
    LET vals == TokenValues(t, 0)
        words == {i \in 1..Len(vals) : IsLetter(vals[i][1])}
    IN {[i \in 1..Len(vals) |-> [value |-> vals[i], verb |-> i \in verbs]] :
           verbs \in SUBSET words}

\* the body of tagStreamWithOffsets' for loop for token i; st holds parts
\* (joined), pieces, streamPos and rawPos
TagStep(t, tagged, i, st) ==
    LET value == tagged[i].value
        tokenStart == IndexOf(t, value, st.rawPos)
    IN IF tokenStart = -1
       THEN [st EXCEPT !.rawPos = st.rawPos + Len(value)]
       ELSE LET out == IF tagged[i].verb THEN VERB ELSE value
                outLen == Len(out)
                s1 == [stream |-> st.stream \o out,
                       pieces |-> Append(st.pieces,
                                    <<st.streamPos, st.streamPos + outLen,
                                      tokenStart, tokenStart + Len(value)>>),
                       streamPos |-> st.streamPos + outLen,
                       rawPos |-> tokenStart + Len(value)]
            IN IF i < Len(tagged)
               THEN LET nextPos == IndexOf(t, tagged[i + 1].value, s1.rawPos)
                    IN IF nextPos > s1.rawPos
                       THEN LET whitespace == Substring(t, s1.rawPos, nextPos)
                            IN [stream |-> s1.stream \o whitespace,
                                pieces |-> Append(s1.pieces,
                                    <<s1.streamPos, s1.streamPos + Len(whitespace),
                                      s1.rawPos, nextPos>>),
                                streamPos |-> s1.streamPos + Len(whitespace),
                                rawPos |-> nextPos]
                       ELSE [stream |-> s1.stream \o <<" ">>,
                             pieces |-> Append(s1.pieces,
                                    <<s1.streamPos, s1.streamPos + 1,
                                      s1.rawPos, s1.rawPos>>),
                             streamPos |-> s1.streamPos + 1,
                             rawPos |-> s1.rawPos]
               ELSE s1

RECURSIVE TagLoop(_, _, _, _)
TagLoop(t, tagged, i, st) ==
    IF i > Len(tagged) THEN st
    ELSE TagLoop(t, tagged, i + 1, TagStep(t, tagged, i, st))

\* tagStreamWithOffsets(text, 'verb') given the tagger's answer for the text
tagStreamWithOffsets(t, tagged) ==
    IF Trim(t) = <<>> THEN [stream |-> <<>>, pieces |-> <<>>]
    ELSE LET st == TagLoop(t, tagged, 1,
                       [stream |-> <<>>, pieces |-> <<>>, streamPos |-> 0, rawPos |-> 0])
         IN [stream |-> st.stream, pieces |-> st.pieces]

\* --------------------------------- contrast-detector.ts: the two stages
\* the least and the greatest of a non-empty sequence of numbers
SeqMin(s) == CHOOSE x \in {s[i] : i \in 1..Len(s)} : \A i \in 1..Len(s) : x <= s[i]
SeqMax(s) == CHOOSE x \in {s[i] : i \in 1..Len(s)} : \A i \in 1..Len(s) : x >= s[i]

\* streamToRaw that answers with the raw range of the first piece alone
streamToRaw_first(pcs, ss, se) ==
    LET streamStarts == [k \in 1..Len(pcs) |-> pcs[k][1]]
        streamEnds == [k \in 1..Len(pcs) |-> pcs[k][2]]
        i == bisectRight(streamEnds, ss)
        j == bisectLeft(streamStarts, se) - 1
    IN IF i >= Len(pcs) \/ j < i THEN Null
       ELSE <<pcs[i + 1][3], pcs[i + 1][4]>>

\* streamToRaw: the raw range of the pieces overlapping [ss, se), or Null
streamToRaw(pcs, ss, se) ==
    LET streamStarts == [k \in 1..Len(pcs) |-> pcs[k][1]]
        streamEnds == [k \in 1..Len(pcs) |-> pcs[k][2]]
        i == bisectRight(streamEnds, ss)
        j == bisectLeft(streamStarts, se) - 1
    IN IF i >= Len(pcs) \/ j < i THEN Null
       ELSE LET sl == SubSeq(pcs, i + 1, j + 1)
            IN <<SeqMin([k \in 1..Len(sl) |-> sl[k][3]]),
                 SeqMax([k \in 1..Len(sl) |-> sl[k][4]])>>

\* the names of the two regex registries
STAGE1_REGEXES == <<"surface">>
STAGE2_REGEXES == <<"syntactic">>

\* what a pattern of the registries can match in a text of length n:
\* <<index, end>> ranges; the contrast patterns match no empty string
MatchRanges(n) == {r \in (0..n) \X (0..n) : r[1] < r[2]}

\* what matchAll returns for a global regex, and match for one that is not:
\* k matches in text order, none overlapping the next
MatchAllResults(n, k) ==
    {ms \in [1..k -> MatchRanges(n)] :
        \A i \in 1..(k - 1) : ms[i][2] <= ms[i + 1][1]}

\* Stage 1: the candidates of the matches of one pattern, in match order
RECURSIVE Stage1Candidates(_, _, _, _, _)
Stage1Candidates(tn, sp, pname, matches, i) ==
    IF i > Len(matches) THEN <<>>
    ELSE LET rs == matches[i][1]
             re == matches[i][2]
             rng == coveredSentenceRange(sp, rs, re)
             rest == Stage1Candidates(tn, sp, pname, matches, i + 1)
         IN IF rng # Null
            THEN <<[lo |-> rng[1], hi |-> rng[2], raw_start |-> rs, raw_end |-> re,
                    pattern_name |-> <<"S1_", pname>>,
                    match_text |-> Trim(Substring(tn, rs, re))]>> \o rest
            ELSE rest

\* Stage 2: the candidates of the matches of one pattern on the tagged stream
RECURSIVE Stage2Candidates(_, _, _, _, _, _)
Stage2Candidates(tn, sp, pcs, pname, matches, i) ==
    IF i > Len(matches) THEN <<>>
    ELSE LET mapRes == streamToRaw(pcs, matches[i][1], matches[i][2])
             rest == Stage2Candidates(tn, sp, pcs, pname, matches, i + 1)
         IN IF mapRes # Null
            THEN LET rs == mapRes[1]
                     re == mapRes[2]
                     rng == coveredSentenceRange(sp, rs, re)
                 IN IF rng # Null
                    THEN <<[lo |-> rng[1], hi |-> rng[2],
                            raw_start |-> rs, raw_end |-> re,
                            pattern_name |-> <<"S2_", pname>>,
                            match_text |-> Trim(Substring(tn, rs, re))]>> \o rest
                    ELSE rest
            ELSE rest

\* the result records built from the merged intervals
BuildResults(tn, sp, mg) ==
    [k \in 1..Len(mg) |->
        LET sLo == mg[k].lo
            sHi == mg[k].hi
            blockStart == sp[sLo + 1][1]
            blockEnd == sp[sHi + 1][2]
        IN [sentence |-> Trim(Substring(tn, blockStart, blockEnd)),
            pattern_name |-> mg[k].pattern_name,
            match_text |-> mg[k].match_text,
            sentence_count |-> sHi - sLo + 1]]

\* ------------------------------------------------- utils.ts: tokenisation
\* the character classes of the tokeniser regexes, over the model's symbols
LowerLetters ==
    {"a", "b", "c", "d", "e", "f", "g", "h", "i", "j", "k", "l", "m",
     "n", "o", "p", "q", "r", "s", "t", "u", "v", "w", "x", "y", "z"}
Digits == {"0", "1"}
WordChars == LowerLetters \cup {"A", "B", "X"} \cup Digits \cup {"_"}
Apostrophe == "'"

\* normalizeQuotes with the second replace only: the single quotes stay
normalizeQuotes_doubleOnly(s) ==
    LET one(c) == IF c \in {"LDQUO", "RDQUO"} THEN "\"" ELSE c
    IN SubSeq([i \in 1..Len(s) |-> one(s[i])], 1, Len(s))

\* normalizeQuotes: single and double quote variants to their ASCII forms
normalizeQuotes(s) ==
    LET one(c) == IF c \in {"LSQUO", "RSQUO", "BACKTICK"} THEN "'"
                  ELSE IF c \in {"LDQUO", "RDQUO"} THEN "\"" ELSE c
    IN SubSeq([i \in 1..Len(s) |-> one(s[i])], 1, Len(s))

\* the end offset of the longest run of characters of cs starting at offset p
RECURSIVE RunEnd(_, _, _)
RunEnd(s, p, cs) ==
    IF p < Len(s) /\ s[p + 1] \in cs THEN RunEnd(s, p + 1, cs) ELSE p

\* s.match(/[cs]+/g) || []: the maximal runs of characters of cs from offset p on
RECURSIVE MatchRuns(_, _, _)
MatchRuns(s, p, cs) ==
    IF p >= Len(s) THEN <<>>
    ELSE IF s[p + 1] \in cs
         THEN <<Substring(s, p, RunEnd(s, p, cs))>> \o MatchRuns(s, RunEnd(s, p, cs), cs)
         ELSE MatchRuns(s, p + 1, cs)

\* t.replace(/^'+|'+$/g, '')
RECURSIVE StripApostrophes(_)
StripApostrophes(t) ==
    IF Len(t) = 0 THEN t
    ELSE IF t[1] = Apostrophe THEN StripApostrophes(Tail(t))
    ELSE IF t[Len(t)] = Apostrophe THEN StripApostrophes(SubSeq(t, 1, Len(t) - 1))
    ELSE t

\* arr.map(f), the result built element by element
RECURSIVE MapStrip(_)
MapStrip(toks) ==
    IF Len(toks) = 0 THEN <<>>
    ELSE <<StripApostrophes(Head(toks))>> \o MapStrip(Tail(toks))

NonEmpty(t) == Len(t) > 0

wordsOnlyLower(s) ==
    LET txt == normalizeQuotes(ToLowerCase(s))
        toks == MatchRuns(txt, 0, LowerLetters \cup {Apostrophe})
    IN SelectSeq(MapStrip(toks), NonEmpty)

\* /^[a-z]+(?:'[a-z]+)?$/.test(t)
IsAlphaToken(t) ==
    LET e == RunEnd(t, 0, LowerLetters)
    IN /\ e > 0
       /\ \/ e = Len(t)
          \/ /\ t[e + 1] = Apostrophe
             /\ RunEnd(t, e + 1, LowerLetters) > e + 1
             /\ RunEnd(t, e + 1, LowerLetters) = Len(t)

alphaTokens(tokens) == SelectSeq(tokens, IsAlphaToken)

\* ordered maps (insertion order, as a JavaScript Map): sequences of <<key, value>>
MapHas(m, k) == \E i \in 1..Len(m) : m[i][1] = k

MapGet(m, k) == m[CHOOSE i \in 1..Len(m) : m[i][1] = k][2]

\* m.set(k, (m.get(k) || 0) + by)
RECURSIVE MapAdd(_, _, _)
MapAdd(m, k, by) ==
    IF Len(m) = 0 THEN << <<k, by>> >>
    ELSE IF Head(m)[1] = k THEN << <<k, Head(m)[2] + by>> >> \o Tail(m)
    ELSE <<Head(m)>> \o MapAdd(Tail(m), k, by)

\* countItems: a Map keeps its keys in the order of their first insertion, and
\* the loop adds 1 to a key's count at each of its occurrences
countItems(arr) ==
    LET IsFirst(i) == \A j \in 1..(i - 1) : arr[j] # arr[i]
        firsts == SelectSeq(SubSeq([i \in 1..Len(arr) |-> i], 1, Len(arr)), IsFirst)
    IN SubSeq([k \in 1..Len(firsts) |->
                  <<arr[firsts[k]],
                    Cardinality({i \in 1..Len(arr) : arr[i] = arr[firsts[k]]})>>],
              1, Len(firsts))

\* words.slice(i, i + n).join(" ")
RECURSIVE JoinSpace(_)
JoinSpace(ws) ==
    IF Len(ws) = 0 THEN <<>>
    ELSE IF Len(ws) = 1 THEN ws[1]
    ELSE ws[1] \o <<" ">> \o JoinSpace(Tail(ws))

RECURSIVE NgramLoop(_, _, _)
NgramLoop(ws, n, i) ==
    IF i > Len(ws) - n THEN <<>>
    ELSE <<JoinSpace(SubSeq(ws, i + 1, i + n))>> \o NgramLoop(ws, n, i + 1)

getNgrams(ws, n) == NgramLoop(ws, n, 0)

\* --------------------------------------------------- metrics.ts: slop index
\* the NLTK English stopwords
STOPWORDS ==
    {<<"i">>, <<"m", "e">>, <<"m", "y">>, <<"m", "y", "s", "e", "l", "f">>,
     <<"w", "e">>, <<"o", "u", "r">>, <<"o", "u", "r", "s">>,
     <<"o", "u", "r", "s", "e", "l", "v", "e", "s">>, <<"y", "o", "u">>,
     <<"y", "o", "u", "r">>, <<"y", "o", "u", "r", "s">>,
     <<"y", "o", "u", "r", "s", "e", "l", "f">>,
     <<"y", "o", "u", "r", "s", "e", "l", "v", "e", "s">>, <<"h", "e">>,
     <<"h", "i", "m">>, <<"h", "i", "s">>, <<"h", "i", "m", "s", "e", "l", "f">>,
     <<"s", "h", "e">>, <<"h", "e", "r">>, <<"h", "e", "r", "s">>,
     <<"h", "e", "r", "s", "e", "l", "f">>, <<"i", "t">>, <<"i", "t", "s">>,
     <<"i", "t", "s", "e", "l", "f">>, <<"t", "h", "e", "y">>, <<"t", "h", "e", "m">>,
     <<"t", "h", "e", "i", "r">>, <<"t", "h", "e", "i", "r", "s">>,
     <<"t", "h", "e", "m", "s", "e", "l", "v", "e", "s">>, <<"w", "h", "a", "t">>,
     <<"w", "h", "i", "c", "h">>, <<"w", "h", "o">>, <<"w", "h", "o", "m">>,
     <<"t", "h", "i", "s">>, <<"t", "h", "a", "t">>, <<"t", "h", "e", "s", "e">>,
     <<"t", "h", "o", "s", "e">>, <<"a", "m">>, <<"i", "s">>, <<"a", "r", "e">>,
     <<"w", "a", "s">>, <<"w", "e", "r", "e">>, <<"b", "e">>, <<"b", "e", "e", "n">>,
     <<"b", "e", "i", "n", "g">>, <<"h", "a", "v", "e">>, <<"h", "a", "s">>,
     <<"h", "a", "d">>, <<"h", "a", "v", "i", "n", "g">>, <<"d", "o">>,
     <<"d", "o", "e", "s">>, <<"d", "i", "d">>, <<"d", "o", "i", "n", "g">>, <<"a">>,
     <<"a", "n">>, <<"t", "h", "e">>, <<"a", "n", "d">>, <<"b", "u", "t">>,
     <<"i", "f">>, <<"o", "r">>, <<"b", "e", "c", "a", "u", "s", "e">>, <<"a", "s">>,
     <<"u", "n", "t", "i", "l">>, <<"w", "h", "i", "l", "e">>, <<"o", "f">>,
     <<"a", "t">>, <<"b", "y">>, <<"f", "o", "r">>, <<"w", "i", "t", "h">>,
     <<"a", "b", "o", "u", "t">>, <<"a", "g", "a", "i", "n", "s", "t">>,
     <<"b", "e", "t", "w", "e", "e", "n">>, <<"i", "n", "t", "o">>,
     <<"t", "h", "r", "o", "u", "g", "h">>, <<"d", "u", "r", "i", "n", "g">>,
     <<"b", "e", "f", "o", "r", "e">>, <<"a", "f", "t", "e", "r">>,
     <<"a", "b", "o", "v", "e">>, <<"b", "e", "l", "o", "w">>, <<"t", "o">>,
     <<"f", "r", "o", "m">>, <<"u", "p">>, <<"d", "o", "w", "n">>, <<"i", "n">>,
     <<"o", "u", "t">>, <<"o", "n">>, <<"o", "f", "f">>, <<"o", "v", "e", "r">>,
     <<"u", "n", "d", "e", "r">>, <<"a", "g", "a", "i", "n">>,
     <<"f", "u", "r", "t", "h", "e", "r">>, <<"t", "h", "e", "n">>,
     <<"o", "n", "c", "e">>, <<"h", "e", "r", "e">>, <<"t", "h", "e", "r", "e">>,
     <<"w", "h", "e", "n">>, <<"w", "h", "e", "r", "e">>, <<"w", "h", "y">>,
     <<"h", "o", "w">>, <<"a", "l", "l">>, <<"a", "n", "y">>, <<"b", "o", "t", "h">>,
     <<"e", "a", "c", "h">>, <<"f", "e", "w">>, <<"m", "o", "r", "e">>,
     <<"m", "o", "s", "t">>, <<"o", "t", "h", "e", "r">>, <<"s", "o", "m", "e">>,
     <<"s", "u", "c", "h">>, <<"n", "o">>, <<"n", "o", "r">>, <<"n", "o", "t">>,
     <<"o", "n", "l", "y">>, <<"o", "w", "n">>, <<"s", "a", "m", "e">>, <<"s", "o">>,
     <<"t", "h", "a", "n">>, <<"t", "o", "o">>, <<"v", "e", "r", "y">>, <<"s">>,
     <<"t">>, <<"c", "a", "n">>, <<"w", "i", "l", "l">>, <<"j", "u", "s", "t">>,
     <<"d", "o", "n">>, <<"s", "h", "o", "u", "l", "d">>, <<"n", "o", "w">>}

\* contractions whose 's is kept
KNOWN_CONTRACTIONS_S ==
    {<<"i", "t", "'", "s">>, <<"t", "h", "a", "t", "'", "s">>,
     <<"w", "h", "a", "t", "'", "s">>, <<"w", "h", "o", "'", "s">>,
     <<"h", "e", "'", "s">>, <<"s", "h", "e", "'", "s">>,
     <<"t", "h", "e", "r", "e", "'", "s">>, <<"h", "e", "r", "e", "'", "s">>,
     <<"w", "h", "e", "r", "e", "'", "s">>, <<"w", "h", "e", "n", "'", "s">>,
     <<"w", "h", "y", "'", "s">>, <<"h", "o", "w", "'", "s">>,
     <<"l", "e", "t", "'", "s">>}


\* a hit list of computeSlopIndex: null, or an array of [phrase, count]
NullHits == [isNull |-> TRUE, entries |-> <<>>]
Hits(e) == [isNull |-> FALSE, entries |-> e]

\* entries.sort((a, b) => b[1] - a[1]): stable, greatest count first
RECURSIVE InsertByCount(_, _)
InsertByCount(sorted, e) ==
    IF Len(sorted) = 0 THEN <<e>>
    ELSE IF Head(sorted)[2] >= e[2] THEN <<Head(sorted)>> \o InsertByCount(Tail(sorted), e)
    ELSE <<e>> \o sorted

RECURSIVE SortByCount(_)
SortByCount(entries) ==
    IF Len(entries) = 0 THEN <<>>
    ELSE InsertByCount(SortByCount(SubSeq(entries, 1, Len(entries) - 1)), entries[Len(entries)])

\* slopWords.has(t) and slopTrigrams.has(tg)
InSlopWords(t) == t \in slopWords
InSlopTrigrams(tg) == tg \in slopTrigrams

\* tokens[i] + " " + tokens[i + 1] + " " + tokens[i + 2] for the offsets i the
\* trigram loop visits, stopping one window early
TrigramWindows_short(tokens) ==
    SubSeq([i \in 1..(Len(tokens) - 3) |->
               tokens[i] \o <<" ">> \o tokens[i + 1] \o <<" ">> \o tokens[i + 2]],
           1, Len(tokens) - 3)

\* tokens[i] + " " + tokens[i + 1] + " " + tokens[i + 2] for i = 0 .. n - 3
TrigramWindows(tokens) ==
    SubSeq([i \in 1..(Len(tokens) - 2) |->
               tokens[i] \o <<" ">> \o tokens[i + 1] \o <<" ">> \o tokens[i + 2]],
           1, Len(tokens) - 2)

\* a loop of computeSlopIndex over items: the hits counted, and counted per
\* phrase in the order of their first occurrence
HitsOf(hits) == [count |-> Len(hits), map |-> countItems(hits)]

NoHits == [count |-> 0, map |-> <<>>]

computeSlopIndex(tokens, trackHits) ==
    LET n == Len(tokens)
    IN IF n = 0
       THEN [wordScore |-> Num(0), trigramScore |-> Num(0),
             wordHits |-> NullHits, trigramHits |-> NullHits]
       ELSE LET w == IF slopWords # {} THEN HitsOf(SelectSeq(tokens, InSlopWords))
                     ELSE NoHits
                t == IF slopTrigrams # {} /\ n >= 3
                     THEN HitsOf(SelectSeq(TrigramWindows(tokens), InSlopTrigrams))
                     ELSE NoHits
            IN [wordScore |-> NumMul(NumDiv(Num(w.count), Num(n)), Num(1000)),
                trigramScore |-> NumMul(NumDiv(Num(t.count), Num(n)), Num(1000)),
                wordHits |-> IF trackHits THEN Hits(SortByCount(w.map)) ELSE NullHits,
                trigramHits |-> IF trackHits THEN Hits(SortByCount(t.map)) ELSE NullHits]

\* /^[a-z]+(?:'[a-z]+)?$/.test(t) && !STOPWORDS.has(t)
IsContentToken(t) == IsAlphaToken(t) /\ t \notin STOPWORDS

contentTokens(tokens) == SelectSeq(tokens, IsContentToken)

makeNgrams(tokens, n) == getNgrams(tokens, n)

\* ------------------------------------------------ metrics.ts: store lookups
\* 10^(k / 100) for k = 0..99, in thousandths (rounded)
POW10_HUNDREDTHS ==
    <<1000, 1023, 1047, 1072, 1096, 1122, 1148, 1175, 1202, 1230, 1259, 1288, 1318,
     1349, 1380, 1413, 1445, 1479, 1514, 1549, 1585, 1622, 1660, 1698, 1738, 1778,
     1820, 1862, 1905, 1950, 1995, 2042, 2089, 2138, 2188, 2239, 2291, 2344, 2399,
     2455, 2512, 2570, 2630, 2692, 2754, 2818, 2884, 2951, 3020, 3090, 3162, 3236,
     3311, 3388, 3467, 3548, 3631, 3715, 3802, 3890, 3981, 4074, 4169, 4266, 4365,
     4467, 4571, 4677, 4786, 4898, 5012, 5129, 5248, 5370, 5495, 5623, 5754, 5888,
     6026, 6166, 6310, 6457, 6607, 6761, 6918, 7079, 7244, 7413, 7586, 7762, 7943,
     8128, 8318, 8511, 8710, 8913, 9120, 9333, 9550, 9772>>

RECURSIVE Pow10Int(_)
Pow10Int(k) == IF k = 0 THEN 1 ELSE 10 * Pow10Int(k - 1)

\* Math.pow(10, zipf - 9) for 0 < zipf <= 9 a multiple of 1 / 100
Pow10(zipf) ==
    LET c == (900 * zipf[2] - 100 * zipf[1]) \div zipf[2]
    IN Frac(1000, Pow10Int(c \div 100) * POW10_HUNDREDTHS[(c % 100) + 1])

\* WordfreqEn.frequency
frequency(wf, word) ==
    LET z == zipfFrequency(wf, StringArg(word))
    IN IF NumLeq(z, Num(0)) THEN Num(0) ELSE Pow10(z)

\* lookupZipf and lookupFrequency: Null for null
lookupZipf(word) ==
    IF wordfreq = Null THEN Null
    ELSE LET z == zipfFrequency(wordfreq, StringArg(word))
         IN IF NumLess(Num(0), z) THEN z ELSE Null

lookupFrequency(word) ==
    IF wordfreq = Null THEN Null
    ELSE LET freq == frequency(wordfreq, word)
         IN IF NumLess(Num(0), freq) THEN freq ELSE Null

\* word.endsWith("'s")
EndsWithS(word) ==
    Len(word) >= 2 /\ word[Len(word) - 1] = Apostrophe /\ word[Len(word)] = "s"

\* the loop of mergePossessives from entry i on
RECURSIVE MergePossessivesLoop(_, _, _)
MergePossessivesLoop(wordCounts, i, mergedCounts) ==
    IF i > Len(wordCounts) THEN mergedCounts
    ELSE LET word == wordCounts[i][1]
             count == wordCounts[i][2]
             baseWord == SubSeq(word, 1, Len(word) - 2)
         IN IF EndsWithS(word) /\ word \notin KNOWN_CONTRACTIONS_S /\ Len(baseWord) > 0
            THEN MergePossessivesLoop(wordCounts, i + 1, MapAdd(mergedCounts, baseWord, count))
            ELSE MergePossessivesLoop(wordCounts, i + 1, MapAdd(mergedCounts, word, count))

mergePossessives(wordCounts) == MergePossessivesLoop(wordCounts, 1, <<>>)

\* values.reduce((a, b) => a + b, 0) over the counts of an ordered map
RECURSIVE SumCounts(_)
SumCounts(m) == IF Len(m) = 0 THEN 0 ELSE Head(m)[2] + SumCounts(Tail(m))

\* ------------------------------------------------ metrics.ts: repetition
\* The baseline of an n-gram is h + k * 1e-12 for a rational h and k in 0..2;
\* a ratio is f / (h + k * 1e-12), kept as its three parts. 1e-12 is below
\* every difference of the model's rationals, so ratios are compared first on
\* the rational parts and then on the 1e-12 parts.
Baseline(h, k) == [h |-> h, k |-> k]

\* the least positive value of humanFreqMap, or 1e-12 when there is none
RECURSIVE MinHumanLoop(_, _, _)
MinHumanLoop(humanFreqMap, i, minHuman) ==
    IF i > Len(humanFreqMap) THEN minHuman
    ELSE LET v == humanFreqMap[i][2]
         IN IF NumLess(Num(0), v) /\ (minHuman = PosInfinity \/ NumLess(v, minHuman))
            THEN MinHumanLoop(humanFreqMap, i + 1, v)
            ELSE MinHumanLoop(humanFreqMap, i + 1, minHuman)

\* minHuman taken as 1e-12 whatever the table holds
MinHuman_floor(humanFreqMap) == Baseline(Num(0), 1)

MinHuman(humanFreqMap) ==
    LET minHuman == MinHumanLoop(humanFreqMap, 1, PosInfinity)
    IN IF ~IsFinite(minHuman) THEN Baseline(Num(0), 1) ELSE Baseline(minHuman, 0)

\* model_f / (human_f + 1e-12)
OveruseRatio(model_f, human_f) == [f |-> model_f, h |-> human_f.h, k |-> human_f.k + 1]

\* a >= b for ratios
RatioGeq(a, b) ==
    LET d1 == NumSub(NumMul(a.f, b.h), NumMul(b.f, a.h))
        d2 == NumSub(NumMul(a.f, Num(b.k)), NumMul(b.f, Num(a.k)))
    IN d1[1] > 0 \/ (d1[1] = 0 /\ d2[1] >= 0)

\* rows.sort((a, b) => b[1] - a[1]): stable, greatest ratio first
RECURSIVE InsertByRatio(_, _)
InsertByRatio(sorted, row) ==
    IF Len(sorted) = 0 THEN <<row>>
    ELSE IF RatioGeq(Head(sorted)[2], row[2])
         THEN <<Head(sorted)>> \o InsertByRatio(Tail(sorted), row)
         ELSE <<row>> \o sorted

RECURSIVE SortByRatio(_)
SortByRatio(rows) ==
    IF Len(rows) = 0 THEN <<>>
    ELSE InsertByRatio(SortByRatio(SubSeq(rows, 1, Len(rows) - 1)), rows[Len(rows)])

\* the row loop of rankOveruseWithCounts from entry i on
RECURSIVE OveruseRows(_, _, _, _, _)
OveruseRows(counts, total, humanFreqMap, minHuman, i) ==
    IF i > Len(counts) THEN <<>>
    ELSE LET ng == counts[i][1]
             cnt == counts[i][2]
             model_f == NumDiv(Num(cnt), Num(total))
             human_f == IF MapHas(humanFreqMap, ng)
                        THEN Baseline(MapGet(humanFreqMap, ng), 0) ELSE minHuman
         IN << <<ng, OveruseRatio(model_f, human_f), cnt>> >>
               \o OveruseRows(counts, total, humanFreqMap, minHuman, i + 1)

\* arr.slice(0, k)
Slice0(arr, k) == SubSeq(arr, 1, Min2(k, Len(arr)))

rankOveruseWithCounts(ngrams, humanFreqMap, topK) ==
    IF Len(ngrams) = 0 THEN <<>>
    ELSE LET counts == countItems(ngrams)
             total == IF SumCounts(counts) = 0 THEN 1 ELSE SumCounts(counts)
             rows == OveruseRows(counts, total, humanFreqMap, MinHuman(humanFreqMap), 1)
         IN Slice0(SortByRatio(rows), topK)

\* r.reduce((s, r) => s + r[2], 0)
RECURSIVE SumRowCounts(_)
SumRowCounts(rows) == IF Len(rows) = 0 THEN 0 ELSE Head(rows)[3] + SumRowCounts(Tail(rows))

\* ------------------------------------------- metrics.ts: lexical diversity
\* new Set(tokens).size
UniqueCount(tokens) == Cardinality({tokens[i] : i \in 1..Len(tokens)})

\* the window loop of computeMATTR leaving out the last window position
RECURSIVE MATTRLoop_skipLast(_, _, _, _, _)
MATTRLoop_skipLast(tokens, windowSize, i, sumTTR, windowCount) ==
    IF i >= Len(tokens) - windowSize /\ windowCount > 0
    THEN NumDiv(sumTTR, Num(windowCount))
    ELSE LET windowTokens == SubSeq(tokens, i + 1, i + windowSize)
             windowTTR == NumDiv(Num(UniqueCount(windowTokens)), Num(windowSize))
         IN MATTRLoop_skipLast(tokens, windowSize, i + 1, NumAdd(sumTTR, windowTTR),
                               windowCount + 1)

\* the window loop of computeMATTR from offset i on
RECURSIVE MATTRLoop(_, _, _, _, _)
MATTRLoop(tokens, windowSize, i, sumTTR, windowCount) ==
    IF i > Len(tokens) - windowSize THEN NumDiv(sumTTR, Num(windowCount))
    ELSE LET windowTokens == SubSeq(tokens, i + 1, i + windowSize)
             windowTTR == NumDiv(Num(UniqueCount(windowTokens)), Num(windowSize))
         IN MATTRLoop(tokens, windowSize, i + 1, NumAdd(sumTTR, windowTTR), windowCount + 1)

\* computeMATTR(tokens, windowSize) for windowSize >= 0
computeMATTR(tokens, windowSize) ==
    LET totalWords == Len(tokens)
    IN IF totalWords = 0 THEN Num(0)
       ELSE IF totalWords >= windowSize
            THEN MATTRLoop(tokens, windowSize, 0, Num(0), 0)
            ELSE NumDiv(Num(UniqueCount(tokens)), Num(totalWords))

\* the window of mattr_500
MATTR_WINDOW == 500

ZeroDiversity ==
    [mattr_500 |-> Num(0), type_token_ratio |-> Num(0), unique_words |-> 0, total_words |-> 0]

computeLexicalDiversity(tokens) ==
    LET totalWords == Len(tokens)
    IN IF totalWords = 0 THEN ZeroDiversity
       ELSE [mattr_500 |-> computeMATTR(tokens, MATTR_WINDOW),
             type_token_ratio |-> NumDiv(Num(UniqueCount(tokens)), Num(totalWords)),
             unique_words |-> UniqueCount(tokens),
             total_words |-> totalWords]

\* --------------------------------------------- metrics.ts: writing metrics
Terminators == {".", "!", "?"}

\* text.split(/[.!?]+/) from offset p on, cur being the piece under way
RECURSIVE SplitSentences(_, _, _)
SplitSentences(t, p, cur) ==
    IF p >= Len(t) THEN <<cur>>
    ELSE IF t[p + 1] \in Terminators
         THEN <<cur>> \o SplitSentences(t, RunEnd(t, p, Terminators), <<>>)
         ELSE SplitSentences(t, p + 1, Append(cur, t[p + 1]))

\* the end offset of a match of /\n\s*\n/ at offset p, or -1
ParagraphBreakEnd(t, p) ==
    IF t[p + 1] # "\n" THEN -1
    ELSE LET e == RunEnd(t, p + 1, {" ", "\n", "\t"})
             ends == {q \in (p + 2)..e : t[q] = "\n"}
         IN IF ends = {} THEN -1 ELSE CHOOSE q \in ends : \A r \in ends : r <= q

\* text.split(/\n\s*\n/) from offset p on
RECURSIVE SplitParagraphs(_, _, _)
SplitParagraphs(t, p, cur) ==
    IF p >= Len(t) THEN <<cur>>
    ELSE IF ParagraphBreakEnd(t, p) >= 0
         THEN <<cur>> \o SplitParagraphs(t, ParagraphBreakEnd(t, p), <<>>)
         ELSE SplitParagraphs(t, p + 1, Append(cur, t[p + 1]))

\* s.trim().length > 0
NonBlank(s) == Len(Trim(s)) > 0

\* text.match(/\b\w+\b/g) || []
MatchWords(t) == MatchRuns(t, 0, WordChars)

Vowels == {"a", "e", "i", "o", "u", "y"}

\* word.replace(/(?:[^laeiouy]es|ed|[^laeiouy]e)$/, '')
StripSuffix(w) ==
    LET n == Len(w)
    IN IF n >= 3 /\ w[n - 2] \notin (Vowels \cup {"l"}) /\ w[n - 1] = "e" /\ w[n] = "s"
       THEN SubSeq(w, 1, n - 3)
       ELSE IF n >= 2 /\ w[n - 1] = "e" /\ w[n] = "d" THEN SubSeq(w, 1, n - 2)
       ELSE IF n >= 2 /\ w[n - 1] \notin (Vowels \cup {"l"}) /\ w[n] = "e"
            THEN SubSeq(w, 1, n - 2)
       ELSE w

\* the number of matches of /[aeiouy]{1,2}/g from offset p on
RECURSIVE VowelGroups(_, _)
VowelGroups(w, p) ==
    IF p >= Len(w) THEN 0
    ELSE IF w[p + 1] \in Vowels
         THEN 1 + VowelGroups(w, IF p + 1 < Len(w) /\ w[p + 2] \in Vowels
                                 THEN p + 2 ELSE p + 1)
         ELSE VowelGroups(w, p + 1)

countSyllables(word0) ==
    LET word == ToLowerCase(word0)
    IN IF Len(word) <= 3 THEN 1
       ELSE LET w1 == StripSuffix(word)
                w2 == IF Len(w1) > 0 /\ w1[1] = "y" THEN Tail(w1) ELSE w1
            IN IF VowelGroups(w2, 0) = 0 THEN 1 ELSE VowelGroups(w2, 0)

RECURSIVE TotalSyllables(_)
TotalSyllables(words) ==
    IF Len(words) = 0 THEN 0
    ELSE countSyllables(Head(words)) + TotalSyllables(Tail(words))

computeVocabLevel(t) ==
    LET sentences == SelectSeq(SplitSentences(t, 0, <<>>), NonBlank)
        words == MatchWords(t)
    IN IF Len(sentences) = 0 \/ Len(words) = 0 THEN Num(0)
       ELSE LET avgSyllablesPerWord == NumDiv(Num(TotalSyllables(words)), Num(Len(words)))
                avgWordsPerSentence == NumDiv(Num(Len(words)), Num(Len(sentences)))
                gradeLevel == NumSub(NumAdd(NumMul(Frac(39, 100), avgWordsPerSentence),
                                            NumMul(Frac(118, 10), avgSyllablesPerWord)),
                                     Frac(1559, 100))
            IN NumMax(Num(0), gradeLevel)

computeAverageSentenceLength(t) ==
    LET sentences == SelectSeq(SplitSentences(t, 0, <<>>), NonBlank)
    IN IF Len(sentences) = 0 THEN Num(0)
       ELSE NumDiv(Num(Len(MatchWords(t))), Num(Len(sentences)))

computeAverageParagraphLength(t) ==
    LET paragraphs == SelectSeq(SplitParagraphs(t, 0, <<>>), NonBlank)
    IN IF Len(paragraphs) = 0 THEN Num(0)
       ELSE NumDiv(Num(Len(MatchWords(t))), Num(Len(paragraphs)))

IsDoubleQuote(c) == c \in {"\"", "LDQUO", "RDQUO"}

computeDialogueFrequency(t) ==
    LET quotes == Len(SelectSeq(t, IsDoubleQuote))
        chars == Len(t)
    IN IF chars = 0 THEN Num(0)
       ELSE NumMul(NumDiv(NumDiv(Num(quotes), Num(2)), Num(chars)), Num(1000))

\* ------------------------------------------------- metrics.ts: analyzeText
\* an optional field of the result
Absent == [present |-> FALSE, value |-> <<>>]
Present(v) == [present |-> TRUE, value |-> v]

\* hits || []
HitsOrEmpty(hits) == IF hits.isNull THEN <<>> ELSE hits.entries

\* the word loop of the over-representation block from entry i on
RECURSIVE WordOverrepLoop(_, _, _)
WordOverrepLoop(wordCounts, totalWords, i) ==
    IF i > Len(wordCounts) THEN <<>>
    ELSE LET w == wordCounts[i][1]
             cnt == wordCounts[i][2]
             baselineFreq == lookupFrequency(w)
         IN IF baselineFreq = Null THEN WordOverrepLoop(wordCounts, totalWords, i + 1)
            ELSE LET modelFreq == NumDiv(Num(cnt), Num(totalWords))
                     ratio == NumDiv(modelFreq, baselineFreq)
                 IN IF NumLess(Frac(3, 2), ratio) /\ cnt >= 2
                    THEN <<[word |-> w, ratio |-> ratio, count |-> cnt]>>
                            \o WordOverrepLoop(wordCounts, totalWords, i + 1)
                    ELSE WordOverrepLoop(wordCounts, totalWords, i + 1)

\* wordOverrep.sort((a, b) => b.ratio - a.ratio)
RECURSIVE InsertByWordRatio(_, _)
InsertByWordRatio(sorted, e) ==
    IF Len(sorted) = 0 THEN <<e>>
    ELSE IF NumLeq(e.ratio, Head(sorted).ratio)
         THEN <<Head(sorted)>> \o InsertByWordRatio(Tail(sorted), e)
         ELSE <<e>> \o sorted

RECURSIVE SortByWordRatio(_)
SortByWordRatio(es) ==
    IF Len(es) = 0 THEN <<>>
    ELSE InsertByWordRatio(SortByWordRatio(SubSeq(es, 1, Len(es) - 1)), es[Len(es)])

\* topBCounts.slice(0, 100).map(([phrase, ratio, count]) => ({phrase, ratio, count}))
RECURSIVE PhraseRows(_)
PhraseRows(rows) ==
    IF Len(rows) = 0 THEN <<>>
    ELSE <<[phrase |-> Head(rows)[1], ratio |-> Head(rows)[2], count |-> Head(rows)[3]]>>
            \o PhraseRows(Tail(rows))

ZeroMetrics ==
    [slop_words_per_1k |-> Num(0),
     slop_trigrams_per_1k |-> Num(0),
     ngram_repetition_score |-> Num(0),
     not_x_but_y_per_1k_chars |-> Num(0),
     lexical_diversity |-> ZeroDiversity,
     vocab_level |-> Num(0),
     avg_sentence_length |-> Num(0),
     avg_paragraph_length |-> Num(0),
     dialogue_frequency |-> Num(0)]

\* the result analyzeText returns at once when the text has no word token
EmptyAnalysis(t, options) ==
    [file |-> options.file, total_chars |-> Len(t), total_words |-> 0,
     slop_score |-> Num(0), metrics |-> ZeroMetrics,
     slop_word_hits |-> Absent, slop_trigram_hits |-> Absent,
     top_over_represented |-> Absent, contrast_matches |-> Absent]

\* analyzeText past the early return
FullAnalysis(t, options, contrastMatches) ==
    LET chars == Len(t)
        toks == alphaTokens(wordsOnlyLower(t))
        nWords == Len(toks)
    IN
       LET trackHits == options.includeWordHits \/ options.includeTrigramHits
           slopResult == computeSlopIndex(toks, trackHits)
           toksContent == contentTokens(toks)
           topBCounts == rankOveruseWithCounts(makeNgrams(toksContent, 2), humanBigramFreq, 40)
           topTCounts == rankOveruseWithCounts(makeNgrams(toksContent, 3), humanTrigramFreq, 40)
           content_word_count == Len(toksContent)
           repetition_score ==
               IF content_word_count > 0
               THEN NumMul(NumDiv(Num(SumRowCounts(topBCounts) + SumRowCounts(topTCounts)),
                                  Num(content_word_count)), Num(1000))
               ELSE Num(0)
           contrastRate ==
               IF chars > 0
               THEN NumMul(NumDiv(Num(Len(contrastMatches)), Num(chars)), Num(1000))
               ELSE Num(0)
           wordCounts == mergePossessives(countItems(toksContent))
           wordOverrep == SortByWordRatio(WordOverrepLoop(wordCounts, SumCounts(wordCounts), 1))
       IN [file |-> options.file,
           total_chars |-> chars,
           total_words |-> nWords,
           slop_score |-> computeSlopScore(slopResult.wordScore, slopResult.trigramScore,
                                           contrastRate),
           metrics |->
               [slop_words_per_1k |-> slopResult.wordScore,
                slop_trigrams_per_1k |-> slopResult.trigramScore,
                ngram_repetition_score |-> repetition_score,
                not_x_but_y_per_1k_chars |-> contrastRate,
                lexical_diversity |-> computeLexicalDiversity(toks),
                vocab_level |-> computeVocabLevel(t),
                avg_sentence_length |-> computeAverageSentenceLength(t),
                avg_paragraph_length |-> computeAverageParagraphLength(t),
                dialogue_frequency |-> computeDialogueFrequency(t)],
           slop_word_hits |->
               IF options.includeWordHits THEN Present(HitsOrEmpty(slopResult.wordHits))
               ELSE Absent,
           slop_trigram_hits |->
               IF options.includeTrigramHits THEN Present(HitsOrEmpty(slopResult.trigramHits))
               ELSE Absent,
           top_over_represented |->
               IF options.includeOverRepresented
               THEN Present([words |-> Slice0(wordOverrep, 100),
                             bigrams |-> PhraseRows(Slice0(topBCounts, 100)),
                             trigrams |-> PhraseRows(Slice0(topTCounts, 100))])
               ELSE Absent,
           contrast_matches |->
               IF options.includeContrastMatches THEN Present(Slice0(contrastMatches, 100))
               ELSE Absent]

\* analyzeText without the early return
analyzeText_noEarlyReturn(t, options, contrastMatches) ==
    FullAnalysis(t, options, contrastMatches)

\* analyzeText(text, options); contrastMatches is what extractContrastMatches(text)
\* returned
analyzeText(t, options, contrastMatches) ==
    IF Len(alphaTokens(wordsOnlyLower(t))) = 0 THEN EmptyAnalysis(t, options)
    ELSE FullAnalysis(t, options, contrastMatches)

\* ------------------------------------------------- metrics.ts: the loaders
\* the end offset of [a-z]+(?:'[a-z]+)? matched at offset p, or -1
LexWordEnd(s, p) ==
    LET e == RunEnd(s, p, LowerLetters)
    IN IF e = p THEN -1
       ELSE IF e < Len(s) /\ s[e + 1] = Apostrophe /\ RunEnd(s, e + 1, LowerLetters) > e + 1
            THEN RunEnd(s, e + 1, LowerLetters)
            ELSE e

\* the end offset of (?:\s+[a-z]+(?:'[a-z]+)?)* matched at offset p
RECURSIVE LexPhraseTail(_, _)
LexPhraseTail(s, p) ==
    LET q == RunEnd(s, p, {" ", "\n", "\t"})
    IN IF q > p /\ LexWordEnd(s, q) >= 0 THEN LexPhraseTail(s, LexWordEnd(s, q)) ELSE p

\* the first match of the phrase regex of loadSet from offset p on, Null when none
RECURSIVE LexPhrase(_, _)
LexPhrase(s, p) ==
    IF p >= Len(s) THEN Null
    ELSE IF LexWordEnd(s, p) >= 0
         THEN [phrase |-> Substring(s, p, LexPhraseTail(s, LexWordEnd(s, p)))]
         ELSE LexPhrase(s, p + 1)

\* a decoded JSON file of loadSet: not an array, or an array of items, an
\* item being an array of strings
NotArray == [isArray |-> FALSE, items |-> <<>>]
ArrayOf(items) == [isArray |-> TRUE, items |-> items]

\* the item loop of loadSet from item i on
RECURSIVE LoadSetLoop(_, _, _)
LoadSetLoop(content, i, outSet) ==
    IF i > Len(content) THEN outSet
    ELSE IF Len(content[i]) = 0 THEN LoadSetLoop(content, i + 1, outSet)
    ELSE LET phrase == LexPhrase(ToLowerCase(content[i][1]), 0)
         IN IF phrase # Null
            THEN LoadSetLoop(content, i + 1, outSet \cup {phrase.phrase})
            ELSE LoadSetLoop(content, i + 1, outSet)

loadSet(file) == IF ~file.isArray THEN {} ELSE LoadSetLoop(file.items, 1, {})

\* targetMap.set(k, v): an existing key keeps its place
RECURSIVE MapPut(_, _, _)
MapPut(m, k, v) ==
    IF Len(m) = 0 THEN << <<k, v>> >>
    ELSE IF Head(m)[1] = k THEN << <<k, v>> >> \o Tail(m)
    ELSE <<Head(m)>> \o MapPut(Tail(m), k, v)

\* the sum of Number(it.frequency) || 0 over the list
RECURSIVE TotalFrequency(_)
TotalFrequency(list) ==
    IF Len(list) = 0 THEN 0 ELSE Head(list).frequency + TotalFrequency(Tail(list))

\* the second loop of norm from item i on
RECURSIVE NormLoop(_, _, _, _)
NormLoop(list, total, i, targetMap) ==
    IF i > Len(list) THEN targetMap
    ELSE LET toks == MatchRuns(ToLowerCase(list[i].ngram), 0, LowerLetters)
         IN IF Len(toks) < 2 THEN NormLoop(list, total, i + 1, targetMap)
            ELSE NormLoop(list, total, i + 1,
                          MapPut(targetMap, JoinSpace(toks),
                                 NumDiv(Num(list[i].frequency), Num(total))))

\* norm(list, targetMap) of loadHumanProfile, targetMap being empty
norm(list) ==
    IF TotalFrequency(list) <= 0 THEN <<>>
    ELSE NormLoop(list, TotalFrequency(list), 1, <<>>)

\* extractContrastMatches(text).length * 1000.0 / chars and the rest of scoreText
scoreText(t, hits) ==
    [hits |-> Len(hits),
     chars |-> Len(t),
     rate_per_1k |-> IF Len(t) > 0 THEN NumDiv(Num(Len(hits) * 1000), Num(Len(t)))
                     ELSE Num(0),
     matches |-> hits]

\* what extractContrastMatches(t) can return when the Stage 1 regex matches
\* at most k1max times and the Stage 2 regex at most k2max times
ContrastOutcomes(t, k1max, k2max) ==
    LET tn == normalizeText(t)
        sp == sentenceSpans(tn)
        stage1 == UNION {MatchAllResults(Len(tn), k1) : k1 \in 0..k1max}
        outcome(tagres, m1, m2) ==
            BuildResults(tn, sp,
                mergeIntervals(Stage1Candidates(tn, sp, STAGE1_REGEXES[1], m1, 1)
                               \o Stage2Candidates(tn, sp, tagres.pieces,
                                                   STAGE2_REGEXES[1], m2, 1)))
        ofTagged(tagres) ==
            UNION {{outcome(tagres, m1, m2) :
                      m2 \in UNION {MatchAllResults(Len(tagres.stream), k2) : k2 \in 0..k2max}} :
                   m1 \in stage1}
    IN UNION {ofTagged(tagStreamWithOffsets(tn, tagged)) : tagged \in tagSentence(tn)}

\* --------------------------------------------------- text utilities: calls
\* the contrast detector has not run
IdleContrast ==
    /\ regexLastIndex = [stage1 |-> 0, stage2 |-> 0, sticky |-> FALSE]
    /\ tNorm = <<>>
    /\ pieces = <<>>
    /\ candidates = <<>>
    /\ merged = <<>>
    /\ results = <<>>

\* no frequency table has been loaded or built
IdleWordfreq ==
    /\ wfData = Null
    /\ wordfreq = Null
    /\ zipfInput = Null
    /\ zipfValue = Null

\* the stores as the module creates them
IdleStores ==
    /\ slopWords = {}
    /\ slopBigrams = {}
    /\ slopTrigrams = {}
    /\ humanBigramFreq = <<>>
    /\ humanTrigramFreq = <<>>
    /\ loading = Null

\* no metrics call has been made
IdleCall ==
    /\ callArgs = Null
    /\ callResult = Null

\* computeSlopScore has not been called
IdleScore ==
    /\ scoreArgs = Null
    /\ slopScore = Null
    /\ prevArgs = Null
    /\ prevScore = Null

\* ------------------------------------------------------- afk-viewer: idle
\* error === null
NoError == "null"

\* the project:session keys of the watched session files
Keys == {"p:s1", "p:s2"}

\* no session file on disk
NoFile == [exists |-> FALSE, lines |-> 0, deletions |-> 0, atStart |-> FALSE]

\* no change event seen for a key
NoEvents == [events |-> 0, since |-> 0, bursts |-> 0, started |-> 0, dirty |-> FALSE]

\* the hook's effect has not run and nothing has happened to a socket
NoReconnects == [effects |-> 0, attempts |-> 0, opened |-> 0, lastClose |-> Null]

\* the hook has not been rendered
IdleHook ==
    /\ hookOptions = Null
    /\ isConnected = FALSE
    /\ isLoading = TRUE
    /\ error = NoError
    /\ projects = <<>>
    /\ wsRef = 0
    /\ reconnectAttemptRef = 0
    /\ reconnectTimeoutRef = 0
    /\ isUnmountedRef = FALSE
    /\ sockets = <<>>
    /\ hookTimers = <<>>
    /\ reconnects = NoReconnects

\* no watcher has been created
IdleWatcher ==
    /\ files = [k \in Keys |-> NoFile]
    /\ fileStates = [k \in Keys |-> Null]
    /\ debounceTimers = [k \in Keys |-> 0]
    /\ timers = {}
    /\ passes = <<>>
    /\ emitted = [k \in Keys |-> <<>>]
    /\ debounceLog = [k \in Keys |-> NoEvents]

IdleViewer == IdleHook /\ IdleWatcher

\* none of the analysis engine's operations has been applied
IdleAnalysis ==
    /\ called = "none"
    /\ text = <<>>
    /\ spans = <<>>
    /\ tagger = PosTagger
    /\ IdleContrast
    /\ IdleScore
    /\ IdleWordfreq
    /\ IdleStores
    /\ IdleCall

InitUtils ==
    /\ called = "none"
    /\ IdleViewer
    /\ text \in SeqsUpTo(TextChars, MaxTextLen)
    /\ spans = <<>>
    /\ tagger = PosTagger
    /\ IdleContrast
    /\ IdleScore
    /\ IdleWordfreq
    /\ IdleStores
    /\ IdleCall

SentenceSpansCall ==
    /\ called = "none"
    /\ called' = "sentenceSpans"
    /\ spans' = sentenceSpans(text)
    /\ UNCHANGED <<varsViewer, text, varsContrast, varsScore, varsWordfreq, varsStores, varsCall>>

\* normalizeText(text)
NormalizeTextCall ==
    /\ called = "none"
    /\ called' = "normalizeText"
    /\ tNorm' = normalizeText(text)
    /\ UNCHANGED <<varsViewer, text, spans, tagger, regexLastIndex, pieces, candidates, merged,
                   results,
                   varsScore, varsWordfreq, varsStores, varsCall>>

NextUtils == SentenceSpansCall \/ NormalizeTextCall

SpecUtils == InitUtils /\ [][NextUtils]_vars

\* ------------------------------------------------ contrast detector: calls
\* characters of the documents: a letter, a blank and a sentence terminator
DocChars == {"a", " ", "."}

InitContrast ==
    /\ called = "none"
    /\ IdleViewer
    /\ text \in SeqsUpTo(DocChars, MaxDocLen)
    /\ spans = <<>>
    /\ tagger \in {PosTagger, Null}
    /\ IdleContrast
    /\ IdleScore
    /\ IdleWordfreq
    /\ IdleStores
    /\ IdleCall

\* pregex.lastIndex left as the call found it
ResetLastIndex_kept(li) == li

\* pregex.lastIndex = 0
ResetLastIndex(li) == 0

\* the matches a regex finds when matching starts at lastIndex li, ms being
\* its matches from the start of the string
MatchesFrom(ms, li) == SelectSeq(ms, LAMBDA m : m[1] >= li)

\* extractContrastMatches(text); the matches of the Stage 1 regex (global),
\* the tagger's answer and the match of the Stage 2 regex (not global) are
\* the inputs. matchAll works on a copy of the regex and leaves lastIndex as
\* reset; match leaves a regex with the flag y at the end of its match and
\* any other where it was
ExtractContrastMatches ==
    /\ called = "none"
    /\ called' = "extractContrastMatches"
    /\ LET tn == normalizeText(text)
           sp == sentenceSpans(tn)
           stage2 == hasPosTagger /\ Len(STAGE2_REGEXES) > 0
           li1 == ResetLastIndex(regexLastIndex.stage1)
           li2 == IF stage2 THEN ResetLastIndex(regexLastIndex.stage2)
                  ELSE regexLastIndex.stage2
       IN \E tagged \in IF stage2 THEN tagSentence(tn) ELSE {<<>>} :
          \E k1 \in 0..MaxMatches :
          \E m1 \in MatchAllResults(Len(text), k1) :
          \E k2 \in 0..(IF stage2 THEN Min2(1, MaxMatches - k1) ELSE 0) :
             LET tagres == IF stage2 THEN tagStreamWithOffsets(tn, tagged)
                           ELSE [stream |-> <<>>, pieces |-> <<>>]
             IN \E m2 \in MatchAllResults(Len(tagres.stream), k2) :
                   LET found1 == MatchesFrom(m1, li1)
                       found2 == MatchesFrom(m2, li2)
                       c1 == Stage1Candidates(tn, sp, STAGE1_REGEXES[1], found1, 1)
                       c2 == Stage2Candidates(tn, sp, tagres.pieces,
                                              STAGE2_REGEXES[1], found2, 1)
                       mg == mergeIntervals(c1 \o c2)
                   IN /\ tNorm' = tn
                      /\ spans' = sp
                      /\ pieces' = tagres.pieces
                      /\ candidates' = c1 \o c2
                      /\ merged' = mg
                      /\ results' = BuildResults(tn, sp, mg)
                      /\ callArgs' = [tagged |-> tagged, m1 |-> m1, m2 |-> m2,
                                      found |-> regexLastIndex]
                      /\ regexLastIndex' =
                            [regexLastIndex EXCEPT
                               !.stage1 = li1,
                               !.stage2 = IF regexLastIndex.sticky /\ found2 # <<>>
                                          THEN found2[1][2] ELSE li2]
    /\ UNCHANGED <<varsViewer, tagger, text, varsScore, varsWordfreq, varsStores, callResult>>

\* extractContrastMatches returns: its locals are gone, the caller holds
\* the results
ContrastReturn ==
    /\ called = "extractContrastMatches"
    /\ called' = "returned"
    /\ spans' = <<>>
    /\ tNorm' = <<>>
    /\ pieces' = <<>>
    /\ candidates' = <<>>
    /\ merged' = <<>>
    /\ results' = <<>>
    /\ callArgs' = Null
    /\ UNCHANGED <<varsViewer, text, tagger, regexLastIndex, varsScore, varsWordfreq, varsStores,
                   callResult>>

\* the caller turns to another document
NextDocument ==
    /\ called = "returned"
    /\ called' = "none"
    /\ text' \in SeqsUpTo(DocChars, MaxDocLen)
    /\ UNCHANGED <<varsViewer, spans, varsContrast, varsScore, varsWordfreq, varsStores, varsCall>>

\* coveredSentenceRange(spans, start, end) on the spans of the text, for the
\* raw offsets of a match in it
CoveredSentenceRangeCall ==
    /\ called = "none"
    /\ called' = "coveredSentenceRange"
    /\ spans' = sentenceSpans(normalizeText(text))
    /\ \E start \in 0..Len(text), end \in 0..Len(text) :
          /\ callArgs' = [start |-> start, end |-> end]
          /\ callResult' = coveredSentenceRange(spans', start, end)
    /\ UNCHANGED <<varsViewer, text, varsContrast, varsScore, varsWordfreq, varsStores>>

\* streamToRaw(ss, se) on the piece table of the tagged text, for the stream
\* offsets of a Stage 2 match
StreamToRawCall ==
    /\ called = "none"
    /\ hasPosTagger
    /\ called' = "streamToRaw"
    /\ tNorm' = normalizeText(text)
    /\ \E tagged \in tagSentence(tNorm') :
          LET tagres == tagStreamWithOffsets(tNorm', tagged)
          IN /\ pieces' = tagres.pieces
             /\ \E m \in MatchRanges(Len(tagres.stream)) :
                   /\ callArgs' = [stream |-> tagres.stream, ss |-> m[1], se |-> m[2]]
                   /\ callResult' = streamToRaw(pieces', m[1], m[2])
    /\ UNCHANGED <<varsViewer, text, spans, tagger, regexLastIndex, candidates, merged, results,
                   varsScore, varsWordfreq, varsStores>>

NextContrast == CoveredSentenceRangeCall \/ StreamToRawCall \/ ExtractContrastMatches

SpecContrast == InitContrast /\ [][NextContrast]_vars

\* a caller that hands one document after another to extractContrastMatches;
\* the Stage 2 regex of the registry may have the flag y
InitCalls ==
    /\ called = "none"
    /\ IdleViewer
    /\ text \in SeqsUpTo(DocChars, MaxDocLen)
    /\ spans = <<>>
    /\ tagger \in {PosTagger, Null}
    /\ regexLastIndex \in [stage1 : {0}, stage2 : {0}, sticky : BOOLEAN]
    /\ tNorm = <<>>
    /\ pieces = <<>>
    /\ candidates = <<>>
    /\ merged = <<>>
    /\ results = <<>>
    /\ IdleScore
    /\ IdleWordfreq
    /\ IdleStores
    /\ IdleCall

NextCalls == ExtractContrastMatches \/ ContrastReturn \/ NextDocument

SpecCalls == InitCalls /\ [][NextCalls]_vars

\* ---------------------------------------------- composite score: calls
\* sample scores: below, inside and above each calibration range
ScoreInputs == {Num(-1), Num(0), Frac(1, 2), Num(25), Num(50)}

InitScore ==
    /\ called = "none"
    /\ IdleViewer
    /\ text = <<>>
    /\ spans = <<>>
    /\ tagger = PosTagger
    /\ IdleContrast
    /\ IdleScore
    /\ IdleWordfreq
    /\ IdleStores
    /\ IdleCall

\* computeSlopScore(wordScore, trigramScore, contrastRate); the call before is
\* remembered
ComputeSlopScoreCall ==
    /\ \E w \in ScoreInputs, t \in ScoreInputs, c \in ScoreInputs :
          /\ scoreArgs' = <<w, t, c>>
          /\ slopScore' = computeSlopScore(w, t, c)
    /\ prevArgs' = scoreArgs
    /\ prevScore' = slopScore
    /\ called' = "computeSlopScore"
    /\ UNCHANGED <<varsViewer, text, spans, varsContrast, varsWordfreq, varsStores, varsCall>>

NextScore == ComputeSlopScoreCall

SpecScore == InitScore /\ [][NextScore]_vars

\* ------------------------------------------------ frequency store: calls
\* the words the frequency files list
Vocab == {<<"a">>, <<"b">>}

\* the buckets a frequency file can hold
Buckets == {NoBucket, Bucket(<<>>), Bucket(<< <<"a">> >>), Bucket(<< <<"b">> >>),
            Bucket(<< <<"a">>, <<"b">> >>)}

GoodHeader == [present |-> TRUE, format |-> "cB", version |-> 1]

\* the decoded frequency files: any buckets under the expected header, and
\* files whose header is missing or wrong
DataFiles ==
    {[header |-> GoodHeader, bins |-> b] : b \in SeqsUpTo(Buckets, MaxBuckets)}
    \cup {[header |-> h, bins |-> <<Bucket(<< <<"a">> >>)>>] :
             h \in {[present |-> FALSE, format |-> "", version |-> 0],
                    [present |-> TRUE, format |-> "cA", version |-> 1],
                    [present |-> TRUE, format |-> "cB", version |-> 2]}}

\* characters of the arguments of zipfFrequency
InputChars == {"a", "B", " ", "'", "RSQUO"}

InitWordfreq ==
    /\ called = "none"
    /\ IdleViewer
    /\ text = <<>>
    /\ spans = <<>>
    /\ tagger = PosTagger
    /\ IdleContrast
    /\ IdleScore
    /\ IdleWordfreq
    /\ IdleStores
    /\ IdleCall

\* wf = await loadWordfreq(dataDir): the table is replaced unless the load throws
LoadWordfreq ==
    /\ \E d \in DataFiles :
          /\ wfData' = d
          /\ IF loadWordfreq(d) = Null
             THEN called' = "loadWordfreq threw" /\ wordfreq' = wordfreq
             ELSE called' = "loadWordfreq" /\ wordfreq' = loadWordfreq(d)
    /\ zipfInput' = Null
    /\ zipfValue' = Null
    /\ UNCHANGED <<varsViewer, text, spans, varsContrast, varsScore, varsStores, varsCall>>

\* wf = new WordfreqEn(map, minZipf)
NewWordfreqEn ==
    /\ \E words \in SUBSET Vocab :
       \E map \in [words -> {Frac(900, 100), Frac(899, 100)}] :
       \E minZipf \in {Num(0), Num(1)} :
          wordfreq' = [map |-> map, minZipf |-> minZipf]
    /\ called' = "new WordfreqEn"
    /\ wfData' = Null
    /\ zipfInput' = Null
    /\ zipfValue' = Null
    /\ UNCHANGED <<varsViewer, text, spans, varsContrast, varsScore, varsStores, varsCall>>

\* wf.zipfFrequency(input)
ZipfFrequencyCall ==
    /\ wordfreq # Null
    /\ \E arg \in {StringArg(s) : s \in SeqsUpTo(InputChars, MaxInputLen)}
                  \cup OtherArgs :
          /\ zipfInput' = arg
          /\ zipfValue' = zipfFrequency(wordfreq, arg)
    /\ called' = "zipfFrequency"
    /\ wfData' = Null
    /\ UNCHANGED <<varsViewer, wordfreq, text, spans, varsContrast, varsScore, varsStores, varsCall>>

NextWordfreq == LoadWordfreq \/ NewWordfreqEn \/ ZipfFrequencyCall

SpecWordfreq == InitWordfreq /\ [][NextWordfreq]_vars

\* ------------------------------------------------------- metrics: calls
\* the token lists of the direct calls
TokenWords == {<<"a">>, <<"b">>}

\* a 1000-token document holding the word "b" exactly 50 times
ThousandTokens ==
    SubSeq([i \in 1..1000 |-> IF i % 20 = 0 THEN <<"b">> ELSE <<"a">>], 1, 1000)

\* characters of the analysed texts: a stopword letter, a content letter, a
\* blank and a sentence terminator
AnalyzeChars == {"a", "b", " ", "."}

\* the analysed texts: every short text, and longer ones with a trigram, a
\* capital, quotation marks, a paragraph break and a four-letter word
AnalyzeTexts ==
    SeqsUpTo(AnalyzeChars, MaxAnalyzeLen)
    \cup {<<"b", " ", "b", " ", "b">>, <<"a", " ", "b", " ", "a">>, <<"B", " ", "b">>,
          <<"\"", "b", "\"">>, <<"b", "\n", "\n", "b">>, <<"b", "a", "b", "a">>,
          <<"b", "RSQUO", "b", ".", " ", "!">>}

AnalyzeOptions ==
    {[file |-> "f", includeWordHits |-> w, includeTrigramHits |-> t,
      includeOverRepresented |-> o, includeContrastMatches |-> c] :
        w \in BOOLEAN, t \in BOOLEAN, o \in BOOLEAN, c \in BOOLEAN}

Item(phrase) == <<phrase>>
Ngram(ngram, f) == [ngram |-> ngram, frequency |-> f]

\* the data directories: the decoded files of loadAllData
DataDirs ==
    {[wordfreq |-> [header |-> GoodHeader,
                    bins |-> <<Bucket(<< <<"a">> >>), Bucket(<< <<"b">> >>),
                               Bucket(<< <<"a", "'", "b">> >>)>>],
      slop_list |-> ArrayOf(<<Item(<<"B">>), <<>>>>),
      slop_list_bigrams |-> NotArray,
      slop_list_trigrams |-> ArrayOf(<<Item(<<"b", " ", "b", " ", "b">>)>>),
      top_bigrams |-> <<Ngram(<<"b", " ", "b">>, 1), Ngram(<<"a", "-", "b">>, 3)>>,
      top_trigrams |-> <<Ngram(<<"b", " ", "b", " ", "b">>, 2), Ngram(<<"b">>, 1)>>],
     [wordfreq |-> [header |-> [present |-> FALSE, format |-> "", version |-> 0],
                    bins |-> <<Bucket(<< <<"a">> >>)>>],
      slop_list |-> ArrayOf(<<Item(<<".">>)>>),
      slop_list_bigrams |-> ArrayOf(<<Item(<<"a", " ", "b">>)>>),
      slop_list_trigrams |-> ArrayOf(<<Item(<<"A", " ", "b", " ", "a", ".">>)>>),
      top_bigrams |-> <<Ngram(<<"b", " ", "b">>, 0), Ngram(<<"a", " ", "b">>, 2)>>,
      top_trigrams |-> <<>>]}

InitMetrics ==
    /\ called = "none"
    /\ IdleViewer
    /\ text = <<>>
    /\ spans = <<>>
    /\ tagger = PosTagger
    /\ IdleContrast
    /\ IdleScore
    /\ IdleWordfreq
    /\ IdleStores
    /\ IdleCall

\* await loadAllData(dataDir): the three loads, each to its end; a frequency
\* file with a bad header makes the call throw and leaves wordfreq as it was
LoadAllData ==
    /\ called = "none"
    /\ \E dir \in DataDirs :
          /\ wfData' = dir.wordfreq
          /\ IF loadWordfreq(dir.wordfreq) = Null
             THEN called' = "loadAllData threw" /\ wordfreq' = wordfreq
             ELSE called' = "loadAllData" /\ wordfreq' = loadWordfreq(dir.wordfreq)
          /\ slopWords' = loadSet(dir.slop_list)
          /\ slopBigrams' = loadSet(dir.slop_list_bigrams)
          /\ slopTrigrams' = loadSet(dir.slop_list_trigrams)
          /\ humanBigramFreq' = norm(dir.top_bigrams)
          /\ humanTrigramFreq' = norm(dir.top_trigrams)
          /\ loading' = [dir |-> dir, pending |-> {},
                         rejected |-> loadWordfreq(dir.wordfreq) = Null]
    /\ zipfInput' = Null
    /\ zipfValue' = Null
    /\ callArgs' = Null
    /\ callResult' = Null
    /\ UNCHANGED <<varsViewer, text, spans, varsContrast, varsScore>>

\* the three loads loadAllData starts
Loads == {"loadWordfreq", "loadSlopSets", "loadHumanProfile"}

\* loadAllData(dataDir) is called, once, and returns its promise: the three
\* loads have run to their first await
LoadAllDataStart ==
    /\ called = "none"
    /\ loading = Null
    /\ \E dir \in DataDirs :
          loading' = [dir |-> dir, pending |-> Loads, rejected |-> FALSE]
    /\ UNCHANGED <<varsViewer, called, text, spans, varsContrast, varsScore, varsWordfreq, varsCall,
                   slopWords, slopBigrams, slopTrigrams, humanBigramFreq,
                   humanTrigramFreq>>

\* the load has settled: it leaves the pending ones, and a failure rejects
\* the promise of loadAllData
Settled(load, ok) ==
    [loading EXCEPT !.pending = @ \ {load}, !.rejected = @ \/ ~ok]

\* the file of loadWordfreq has been read, or not: wordfreq is assigned
\* unless reading fails or the header is refused
WordfreqLoaded ==
    /\ called = "none"
    /\ loading # Null
    /\ "loadWordfreq" \in loading.pending
    /\ \E read \in BOOLEAN :
          LET wf == IF read THEN loadWordfreq(loading.dir.wordfreq) ELSE Null
          IN /\ wordfreq' = IF wf = Null THEN wordfreq ELSE wf
             /\ loading' = Settled("loadWordfreq", wf # Null)
    /\ UNCHANGED <<varsViewer, called, text, spans, varsContrast, varsScore, varsCall,
                   wfData, zipfInput, zipfValue,
                   slopWords, slopBigrams, slopTrigrams, humanBigramFreq,
                   humanTrigramFreq>>

\* the three files of loadSlopSets have been read, or one has not: the three
\* sets are assigned together
SlopSetsLoaded ==
    /\ called = "none"
    /\ loading # Null
    /\ "loadSlopSets" \in loading.pending
    /\ \E read \in BOOLEAN :
          /\ slopWords' = IF read THEN loadSet(loading.dir.slop_list) ELSE slopWords
          /\ slopBigrams' = IF read THEN loadSet(loading.dir.slop_list_bigrams)
                            ELSE slopBigrams
          /\ slopTrigrams' = IF read THEN loadSet(loading.dir.slop_list_trigrams)
                             ELSE slopTrigrams
          /\ loading' = Settled("loadSlopSets", read)
    /\ UNCHANGED <<varsViewer, called, text, spans, varsContrast, varsScore, varsWordfreq, varsCall,
                   humanBigramFreq, humanTrigramFreq>>

\* the file of loadHumanProfile has been read and parsed, or not: the two
\* tables are replaced and filled
HumanProfileLoaded ==
    /\ called = "none"
    /\ loading # Null
    /\ "loadHumanProfile" \in loading.pending
    /\ \E read \in BOOLEAN :
          /\ humanBigramFreq' = IF read THEN norm(loading.dir.top_bigrams)
                                ELSE humanBigramFreq
          /\ humanTrigramFreq' = IF read THEN norm(loading.dir.top_trigrams)
                                 ELSE humanTrigramFreq
          /\ loading' = Settled("loadHumanProfile", read)
    /\ UNCHANGED <<varsViewer, called, text, spans, varsContrast, varsScore, varsWordfreq, varsCall,
                   slopWords, slopBigrams, slopTrigrams>>

\* computeSlopIndex(tokens, trackHits)
ComputeSlopIndexCall ==
    /\ called = "none"
    /\ \E tokens \in SeqsUpTo(TokenWords, MaxTokens) \cup {ThousandTokens},
          trackHits \in BOOLEAN :
          /\ callArgs' = [tokens |-> tokens, trackHits |-> trackHits]
          /\ callResult' = computeSlopIndex(tokens, trackHits)
    /\ called' = "computeSlopIndex"
    /\ UNCHANGED <<varsViewer, text, spans, varsContrast, varsScore, varsWordfreq, varsStores>>

\* computeMATTR(tokens, windowSize)
ComputeMATTRCall ==
    /\ called = "none"
    /\ \E tokens \in SeqsUpTo(TokenWords, MaxTokens), windowSize \in 0..MaxWindow :
          /\ callArgs' = [tokens |-> tokens, windowSize |-> windowSize]
          /\ callResult' = computeMATTR(tokens, windowSize)
    /\ called' = "computeMATTR"
    /\ UNCHANGED <<varsViewer, text, spans, varsContrast, varsScore, varsWordfreq, varsStores>>

\* the n-grams ranked: two of them can be in the bigram baseline
RankedNgrams == {<<"b", " ", "b">>, <<"a", " ", "b">>, <<"a", " ", "a">>}

\* rankOveruseWithCounts(ngrams, humanFreqMap, topK) on one of the two
\* baseline tables
RankOveruseWithCountsCall ==
    /\ called = "none"
    /\ \E ngrams \in SeqsUpTo(RankedNgrams, MaxTokens),
          humanFreqMap \in {humanBigramFreq, humanTrigramFreq},
          topK \in 0..MaxTopK :
          /\ callArgs' = [ngrams |-> ngrams, humanFreqMap |-> humanFreqMap, topK |-> topK]
          /\ callResult' = rankOveruseWithCounts(ngrams, humanFreqMap, topK)
    /\ called' = "rankOveruseWithCounts"
    /\ UNCHANGED <<varsViewer, text, spans, varsContrast, varsScore, varsWordfreq, varsStores>>

\* characters of the tokenised texts: letters and the four quotation marks
QuoteChars == {"a", "B", "'", "RSQUO", "\"", "LDQUO"}

\* wordsOnlyLower(s)
WordsOnlyLowerCall ==
    /\ called = "none"
    /\ \E s \in SeqsUpTo(QuoteChars, MaxInputLen) :
          /\ callArgs' = [s |-> s]
          /\ callResult' = wordsOnlyLower(s)
    /\ called' = "wordsOnlyLower"
    /\ UNCHANGED <<varsViewer, text, spans, varsContrast, varsScore, varsWordfreq, varsStores>>

\* lookupZipf(word) that memoises the looked-up word in the table
LookupZipfCall_memo ==
    /\ called = "none"
    /\ \E word \in SeqsUpTo(InputChars, MaxInputLen) :
          /\ callArgs' = [word |-> word]
          /\ callResult' = lookupZipf(word)
          /\ wordfreq' = IF wordfreq = Null THEN wordfreq
                         ELSE [wordfreq EXCEPT
                                 !.map = MapSet(@, word, wordfreq.minZipf)]
    /\ called' = "lookupZipf"
    /\ UNCHANGED <<varsViewer, text, spans, varsContrast, varsScore, wfData, zipfInput,
                   zipfValue, varsStores>>

\* lookupZipf(word)
LookupZipfCall ==
    /\ called = "none"
    /\ \E word \in SeqsUpTo(InputChars, MaxInputLen) :
          /\ callArgs' = [word |-> word]
          /\ callResult' = lookupZipf(word)
    /\ called' = "lookupZipf"
    /\ UNCHANGED <<varsViewer, text, spans, varsContrast, varsScore, varsWordfreq, varsStores>>

\* lookupFrequency(word)
LookupFrequencyCall ==
    /\ called = "none"
    /\ \E word \in SeqsUpTo(InputChars, MaxInputLen) :
          /\ callArgs' = [word |-> word]
          /\ callResult' = lookupFrequency(word)
    /\ called' = "lookupFrequency"
    /\ UNCHANGED <<varsViewer, text, spans, varsContrast, varsScore, varsWordfreq, varsStores>>

\* scoreText(text)
ScoreTextCall ==
    /\ called = "none"
    /\ \E t \in AnalyzeTexts :
       \E hits \in ContrastOutcomes(t, 1, 1) :
          /\ callArgs' = [text |-> t]
          /\ callResult' = scoreText(t, hits)
    /\ called' = "scoreText"
    /\ UNCHANGED <<varsViewer, text, spans, varsContrast, varsScore, varsWordfreq, varsStores>>

\* analyzeText(text, options)
AnalyzeText ==
    /\ called = "none"
    /\ \E t \in AnalyzeTexts :
       \E contrastMatches \in ContrastOutcomes(t, 1, 1) :
       \E options \in AnalyzeOptions :
          /\ callArgs' = [text |-> t, options |-> options]
          /\ callResult' = analyzeText(t, options, contrastMatches)
    /\ called' = "analyzeText"
    /\ UNCHANGED <<varsViewer, text, spans, varsContrast, varsScore, varsWordfreq, varsStores>>

\* the call returns to the caller, which takes its result
ReturnToCaller ==
    /\ called # "none"
    /\ called' = "none"
    /\ callArgs' = Null
    /\ callResult' = Null
    /\ UNCHANGED <<varsViewer, text, spans, varsContrast, varsScore, varsWordfreq, varsStores>>

NextMetrics ==
    \/ LoadAllData
    \/ ReturnToCaller
    \/ ComputeSlopIndexCall
    \/ ComputeMATTRCall
    \/ RankOveruseWithCountsCall
    \/ WordsOnlyLowerCall
    \/ LookupZipfCall
    \/ LookupFrequencyCall
    \/ ScoreTextCall
    \/ AnalyzeText

SpecMetrics == InitMetrics /\ [][NextMetrics]_vars

\* loadAllData with its three loads settling one by one, and analyzeText
\* called at any point between them
NextLoading ==
    \/ LoadAllDataStart
    \/ WordfreqLoaded
    \/ SlopSetsLoaded
    \/ HumanProfileLoaded
    \/ AnalyzeText
    \/ ReturnToCaller

SpecLoading == InitMetrics /\ [][NextLoading]_vars

\* ------------------------------------------------------------------ claims

\* C1: sentenceSpans(text) tiles [0, len(text)) exactly: the first span
\* starts at 0, every span is non-empty, each span ends where the next one
\* starts, the last span ends at len(text); the empty text has no spans.
SpansTile(t, s) ==
    /\ (Len(t) = 0) <=> (s = <<>>)
    /\ s # <<>> => s[1][1] = 0 /\ s[Len(s)][2] = Len(t)
    /\ \A i \in 1..Len(s) : s[i][1] < s[i][2]
    /\ \A i \in 1..(Len(s) - 1) : s[i][2] = s[i + 1][1]

C1_SpansTileText ==
    called = "sentenceSpans" => SpansTile(text, spans)

\* a text with a terminated sentence followed by unterminated trailing text
C1_Witness ==
    /\ called = "sentenceSpans"
    /\ Len(spans) >= 2
    /\ ~IsTerminator(text[Len(text)])

\* C2: the merged groups are sorted and pairwise disjoint by span index: each
\* group ends on a span before the one the next group starts on.
C2_MergedDisjointSorted ==
    called = "extractContrastMatches" =>
        \A k \in 1..(Len(merged) - 1) : merged[k].hi < merged[k + 1].lo

\* a Stage 2 candidate that sorts before the Stage 1 candidate pushed ahead
\* of it, each ending up in a group of its own
C2_Witness ==
    /\ called = "extractContrastMatches"
    /\ Len(candidates) = 2
    /\ candidates[1].lo > candidates[2].lo
    /\ Len(merged) = 2

\* C3: computeSlopScore returns a value in [0, 100], and raising one of its
\* three inputs with the other two held fixed never lowers the value.
RaisedOne(a, b) ==
    \E i \in 1..3 :
        /\ NumLeq(a[i], b[i])
        /\ \A j \in (1..3) \ {i} : a[j] = b[j]

C3_ScoreBoundedMonotone ==
    called = "computeSlopScore" =>
        /\ NumLeq(Num(0), slopScore) /\ NumLeq(slopScore, Num(100))
        /\ prevArgs # Null /\ RaisedOne(prevArgs, scoreArgs)
              => NumLeq(prevScore, slopScore)

\* a call with one input raised that raised the score, and a call whose three
\* inputs all lie above their ranges
C3_Witness ==
    /\ called = "computeSlopScore"
    /\ prevArgs # Null
    /\ prevArgs # scoreArgs /\ RaisedOne(prevArgs, scoreArgs)
    /\ NumLess(prevScore, slopScore)
    /\ slopScore = Num(100)

\* the score the weighted formula gives for a result's own three metrics
FormulaScore(metrics) ==
    LET normWords == normalizeValue(metrics.slop_words_per_1k,
                                    NORMALIZATION_RANGES.slop_words)
        normTrigrams == normalizeValue(metrics.slop_trigrams_per_1k,
                                       NORMALIZATION_RANGES.slop_trigrams)
        normContrast == normalizeValue(metrics.not_x_but_y_per_1k_chars,
                                       NORMALIZATION_RANGES.contrast)
    IN NumMul(Num(100), NumAdd(NumAdd(NumMul(Frac(60, 100), Frac(normWords, One)),
                                      NumMul(Frac(25, 100), Frac(normContrast, One))),
                               NumMul(Frac(15, 100), Frac(normTrigrams, One))))

\* C4 as stated: every result of analyzeText has slop_score =
\* 100 * (0.6 * normWords + 0.25 * normContrast + 0.15 * normTrigrams) of its
\* own slop_words_per_1k, slop_trigrams_per_1k and not_x_but_y_per_1k_chars.
C4_ScoreFormulaEveryResult ==
    called = "analyzeText" => callResult.slop_score = FormulaScore(callResult.metrics)

\* C4: a result of analyzeText with total_words > 0 has slop_score =
\* 100 * (0.6 * normWords + 0.25 * normContrast + 0.15 * normTrigrams) of its
\* own metrics; a result with total_words = 0 has slop_score = 0.
C4_ScoreFormula ==
    called = "analyzeText" =>
        IF callResult.total_words > 0
        THEN callResult.slop_score = FormulaScore(callResult.metrics)
        ELSE callResult.slop_score = Num(0)

\* a text with slop words, a slop trigram and a contrast match, all three
\* weighing in the score
C4_Witness ==
    /\ called = "analyzeText"
    /\ callResult.total_words > 0
    /\ NumLess(Num(0), callResult.metrics.slop_words_per_1k)
    /\ NumLess(Num(0), callResult.metrics.slop_trigrams_per_1k)
    /\ NumLess(Num(0), callResult.metrics.not_x_but_y_per_1k_chars)
    /\ callResult.slop_score = Num(100)

\* the tokens of the call that are in the word lexicon, and the offsets of
\* its 3-token windows that are in the trigram lexicon
LexiconTokens(tokens) == {i \in 1..Len(tokens) : tokens[i] \in slopWords}

LexiconWindows(tokens) ==
    {i \in 1..(Len(tokens) - 2) :
        tokens[i] \o <<" ">> \o tokens[i + 1] \o <<" ">> \o tokens[i + 2] \in slopTrigrams}

\* C5: for a non-empty token list of length n, computeSlopIndex returns
\* wordScore = 1000 * (tokens in the word lexicon) / n and trigramScore =
\* 1000 * (3-token windows in the trigram lexicon) / n; both are >= 0, both
\* are 0 iff no lexicon entry is in the tokens, and 1000 tokens with exactly
\* 50 lexicon words give wordScore = 50.
C5_SlopIndexFormulas ==
    (called = "computeSlopIndex" /\ Len(callArgs.tokens) > 0) =>
        LET tokens == callArgs.tokens
            n == Len(tokens)
        IN /\ callResult.wordScore = Frac(1000 * Cardinality(LexiconTokens(tokens)), n)
           /\ callResult.trigramScore = Frac(1000 * Cardinality(LexiconWindows(tokens)), n)
           /\ NumLeq(Num(0), callResult.wordScore)
           /\ NumLeq(Num(0), callResult.trigramScore)
           /\ (callResult.wordScore = Num(0) /\ callResult.trigramScore = Num(0))
                 <=> (LexiconTokens(tokens) = {} /\ LexiconWindows(tokens) = {})
           /\ (n = 1000 /\ Cardinality(LexiconTokens(tokens)) = 50)
                 => callResult.wordScore = Num(50)

\* four tokens whose two windows, the last one included, are both in the
\* trigram lexicon
C5_Witness ==
    /\ called = "computeSlopIndex"
    /\ Len(callArgs.tokens) = 4
    /\ Cardinality(LexiconWindows(callArgs.tokens)) = 2
    /\ callResult.trigramScore = Num(500)
    /\ callResult.wordScore = Num(1000)

\* the 1000-token document with 50 lexicon words
C5_WitnessThousand ==
    /\ called = "computeSlopIndex"
    /\ Len(callArgs.tokens) = 1000
    /\ Cardinality(LexiconTokens(callArgs.tokens)) = 50
    /\ callResult.wordScore = Num(50)

\* C6: analyzeText on a text that yields no word token (the empty text
\* included) returns total_words = 0, slop_score = 0, unique_words = 0, every
\* metric 0, and total_chars = the length of the text.
C6_EmptyTextAllZero ==
    (called = "analyzeText" /\ Len(alphaTokens(wordsOnlyLower(callArgs.text))) = 0) =>
        /\ callResult.total_words = 0
        /\ callResult.slop_score = Num(0)
        /\ callResult.total_chars = Len(callArgs.text)
        /\ callResult.metrics.lexical_diversity.unique_words = 0
        /\ callResult.metrics.lexical_diversity.total_words = 0
        /\ callResult.metrics.lexical_diversity.mattr_500 = Num(0)
        /\ callResult.metrics.lexical_diversity.type_token_ratio = Num(0)
        /\ \A f \in {"slop_words_per_1k", "slop_trigrams_per_1k", "ngram_repetition_score",
                     "not_x_but_y_per_1k_chars", "vocab_level", "avg_sentence_length",
                     "avg_paragraph_length", "dialogue_frequency"} :
              callResult.metrics[f] = Num(0)

\* a text of two characters and no word token, analysed with the contrast
\* matches asked for
C6_Witness ==
    /\ called = "analyzeText"
    /\ Len(callArgs.text) = 2
    /\ \A i \in 1..2 : callArgs.text[i] \notin LowerLetters
    /\ callArgs.options.includeContrastMatches
    /\ callResult.total_chars = 2
    /\ callResult.total_words = 0

\* C7: every number a metric computation returns is finite, a division by
\* zero tokens, characters, sentences or window giving 0.
C7_EveryMetricFinite ==
    /\ called = "computeMATTR" =>
          /\ IsFinite(callResult)
          /\ (Len(callArgs.tokens) = 0 \/ callArgs.windowSize = 0) => callResult = Num(0)
    /\ called = "computeSlopIndex" =>
          IsFinite(callResult.wordScore) /\ IsFinite(callResult.trigramScore)
    /\ called = "scoreText" => IsFinite(callResult.rate_per_1k)
    /\ called = "analyzeText" =>
          /\ IsFinite(callResult.slop_score)
          /\ IsFinite(callResult.metrics.lexical_diversity.mattr_500)
          /\ IsFinite(callResult.metrics.lexical_diversity.type_token_ratio)
          /\ \A f \in {"slop_words_per_1k", "slop_trigrams_per_1k",
                       "ngram_repetition_score", "not_x_but_y_per_1k_chars",
                       "vocab_level", "avg_sentence_length", "avg_paragraph_length",
                       "dialogue_frequency"} :
                IsFinite(callResult.metrics[f])

\* C8: computeSlopIndex on zero tokens returns both scores 0 and, when
\* trackHits is set, empty hit collections.
C8_ZeroTokensEmptyHits ==
    (called = "computeSlopIndex" /\ Len(callArgs.tokens) = 0) =>
        /\ callResult.wordScore = Num(0)
        /\ callResult.trigramScore = Num(0)
        /\ callArgs.trackHits =>
              /\ ~callResult.wordHits.isNull /\ callResult.wordHits.entries = <<>>
              /\ ~callResult.trigramHits.isNull /\ callResult.trigramHits.entries = <<>>

\* C9: after loading, every word listed in some bucket maps to
\* (900 - i) / 100 for the lowest bucket index i listing it (the first
\* assignment wins).
ListedIn(bins, w) ==
    {i \in 0..(Len(bins) - 1) :
        bins[i + 1].isArray /\ \E k \in 1..Len(bins[i + 1].words) : bins[i + 1].words[k] = w}

FirstBucket(bins, w) ==
    CHOOSE i \in ListedIn(bins, w) : \A j \in ListedIn(bins, w) : i <= j

C9_FirstAssignmentWins ==
    called = "loadWordfreq" =>
        \A w \in Vocab :
            ListedIn(wfData.bins, w) # {} =>
                /\ w \in DOMAIN wordfreq.map
                /\ wordfreq.map[w] = Frac(900 - FirstBucket(wfData.bins, w), 100)

\* C10: for an input whose normalised form tokenises to more than one word,
\* zipfFrequency returns the least table value of its tokens, a token absent
\* from the table counting as the configured default.
TokenValue(w) == IF w \in DOMAIN wordfreq.map THEN wordfreq.map[w] ELSE wordfreq.minZipf

InputTokens == WordMatches(normalizeWord_en(zipfInput.value), 0)

C10_PhraseIsMinimum ==
    (called = "zipfFrequency" /\ zipfInput.type = "string" /\ Len(InputTokens) > 1) =>
        /\ \A k \in 1..Len(InputTokens) : NumLeq(zipfValue, TokenValue(InputTokens[k]))
        /\ \E k \in 1..Len(InputTokens) : zipfValue = TokenValue(InputTokens[k])

\* a phrase of a listed word and an unknown one, under a default above zero
\* that is not the least value
C10_Witness ==
    /\ called = "zipfFrequency"
    /\ zipfInput.type = "string"
    /\ Len(InputTokens) = 2
    /\ InputTokens[1] \in DOMAIN wordfreq.map
    /\ InputTokens[2] \notin DOMAIN wordfreq.map
    /\ wordfreq.minZipf = Num(1)
    /\ zipfValue = Num(1)

\* C11: zipfFrequency never throws, and for an empty, null, undefined or
\* non-string input it returns the out-of-vocabulary default the table was
\* constructed with (the value an unknown word gets), whatever that default is.
C11_NoInputGetsDefault ==
    (called = "zipfFrequency"
        /\ (zipfInput.type # "string" \/ zipfInput.value = <<>>))
    => zipfValue = wordfreq.minZipf

\* the header record of a decoded file is there with the expected tag and version
ExpectedHeader(file) ==
    /\ file.header.present
    /\ file.header.format = "cB"
    /\ file.header.version = 1

\* C12: loading the frequency store fails, and constructs no table, whenever
\* the header record is missing or its format tag or version differs from the
\* expected constants; when the header matches, loading succeeds and returns
\* a table.
C12_HeaderDecidesLoad ==
    [][wfData' # Null =>
          IF ExpectedHeader(wfData')
          THEN /\ called' = "loadWordfreq"
               /\ wordfreq' # Null
               /\ wordfreq'.minZipf = Num(0)
          ELSE /\ called' = "loadWordfreq threw"
               /\ wordfreq' = wordfreq]_vars

\* a file with the expected tag and another version was refused, and no table
\* exists
C12_Witness ==
    /\ called = "loadWordfreq threw"
    /\ wfData.header.present
    /\ wfData.header.format = "cB"
    /\ wfData.header.version # 1
    /\ wordfreq = Null

\* the sum of the values stored in a baseline table
RECURSIVE SumValues(_)
SumValues(m) ==
    IF Len(m) = 0 THEN Num(0) ELSE NumAdd(Head(m)[2], SumValues(Tail(m)))

\* C13: after loadHumanProfile each non-empty baseline table (bigram,
\* trigram) is a probability distribution over the entries actually loaded:
\* entries whose ngram has fewer than 2 alphabetic tokens are discarded, and
\* the stored values of each table sum to 1.
C13_BaselineSumsToOne ==
    /\ Len(humanBigramFreq) > 0 => SumValues(humanBigramFreq) = Num(1)
    /\ Len(humanTrigramFreq) > 0 => SumValues(humanTrigramFreq) = Num(1)

\* candidate a comes before candidate b by (spanLo, spanHi, rawStart)
KeyLess(a, b) ==
    \/ a.lo < b.lo
    \/ a.lo = b.lo /\ a.hi < b.hi
    \/ a.lo = b.lo /\ a.hi = b.hi /\ a.raw_start < b.raw_start

\* the candidates in sort order: candidate i has as many candidates before it
\* as have a smaller key, or the same key and an earlier place
SortOrder(c) ==
    LET Rank(i) == Cardinality({j \in 1..Len(c) :
                        \/ KeyLess(c[j], c[i])
                        \/ ~KeyLess(c[i], c[j]) /\ j < i})
    IN [r \in 1..Len(c) |-> c[CHOOSE i \in 1..Len(c) : Rank(i) = r - 1]]

\* the places in sort order where a group starts: the candidate's spanLo is
\* beyond the spanHi of every candidate before it
GroupStarts(s) == {i \in 1..Len(s) : \A j \in 1..(i - 1) : s[j].hi < s[i].lo}

\* the members of the group starting at place i
GroupMembers(s, i) ==
    {k \in i..Len(s) : \A j \in (i + 1)..k : j \notin GroupStarts(s)}

\* C14: in the merge step the candidates are sorted by (spanLo, spanHi,
\* rawStart) and a candidate joins the current group exactly when its spanLo
\* <= the group's current spanHi; each emitted ContrastMatch covers the span
\* indices lo..hi of its whole group, its sentence text is taken from
\* [spans[lo].start, spans[hi].end), its pattern_name and match_text are those
\* of the group's first candidate in sort order, and its sentence_count is
\* hi - lo + 1.
C14_MergedGroups ==
    called = "extractContrastMatches" =>
        LET s == SortOrder(candidates)
            starts == GroupStarts(s)
        IN /\ Len(results) = Cardinality(starts)
           /\ Len(merged) = Cardinality(starts)
           /\ \A k \in 1..Len(results) :
                 LET first == CHOOSE i \in starts :
                                  Cardinality({j \in starts : j < i}) = k - 1
                     members == GroupMembers(s, first)
                     lo == CHOOSE x \in {s[i].lo : i \in members} :
                               \A i \in members : x <= s[i].lo
                     hi == CHOOSE x \in {s[i].hi : i \in members} :
                               \A i \in members : x >= s[i].hi
                 IN /\ merged[k].lo = lo
                    /\ merged[k].hi = hi
                    /\ results[k].sentence =
                          Trim(Substring(tNorm, spans[lo + 1][1], spans[hi + 1][2]))
                    /\ results[k].pattern_name = s[first].pattern_name
                    /\ results[k].match_text = s[first].match_text
                    /\ results[k].sentence_count = hi - lo + 1

\* three candidates in one group, the third reaching the group only through
\* the spanHi of the first, and the match of the second stage sorting first
C14_Witness ==
    /\ called = "extractContrastMatches"
    /\ Len(candidates) = 3
    /\ Len(results) = 1
    /\ LET s == SortOrder(candidates)
       IN /\ s[2].hi < s[1].hi
          /\ s[3].lo > s[2].hi
          /\ s[1] = candidates[3]
    /\ results[1].sentence_count = 3
    /\ results[1].pattern_name = candidates[3].pattern_name

\* the places of an n-gram in the ranked input
Occurrences(ngrams, ng) == {i \in 1..Len(ngrams) : ngrams[i] = ng}

\* the positive values of a baseline table
PositiveValues(tbl) == {tbl[i][2] : i \in {j \in 1..Len(tbl) : NumLess(Num(0), tbl[j][2])}}

\* the table says what the baseline of the n-gram is: its value, or the
\* smallest positive value there is
HasBaseline(tbl, ng) == MapHas(tbl, ng) \/ PositiveValues(tbl) # {}

\* (count / total n-grams) / (b + 1e-12) for an n-gram with a baseline
StatedRatio(ngrams, tbl, ng) ==
    [f |-> Frac(Cardinality(Occurrences(ngrams, ng)), Len(ngrams)),
     h |-> IF MapHas(tbl, ng) THEN MapGet(tbl, ng)
           ELSE CHOOSE v \in PositiveValues(tbl) :
                    \A u \in PositiveValues(tbl) : NumLeq(v, u),
     k |-> 1]

\* C15: rankOveruseWithCounts(ngrams, baseline, topK) returns at most topK
\* rows, one per distinct input n-gram, ordered by non-increasing ratio; each
\* row's count is the n-gram's number of occurrences in the input, its ratio
\* is (count / total n-grams) / (b + 1e-12), and b is the table's value for
\* the n-gram or, when the n-gram is absent from the table, the smallest
\* positive probability present in the table; empty input gives an empty
\* result.
C15_RankedOveruse ==
    called = "rankOveruseWithCounts" =>
        LET ngrams == callArgs.ngrams
            tbl == callArgs.humanFreqMap
            rows == callResult
            distinct == {ngrams[i] : i \in 1..Len(ngrams)}
            ranked == {rows[i][1] : i \in 1..Len(rows)}
        IN /\ Len(rows) = Min2(callArgs.topK, Cardinality(distinct))
           /\ Len(ngrams) = 0 => rows = <<>>
           /\ ranked \subseteq distinct
           /\ Cardinality(ranked) = Len(rows)
           /\ \A i \in 1..Len(rows) :
                 /\ rows[i][3] = Cardinality(Occurrences(ngrams, rows[i][1]))
                 /\ HasBaseline(tbl, rows[i][1]) =>
                       rows[i][2] = StatedRatio(ngrams, tbl, rows[i][1])
           /\ \A i \in 1..(Len(rows) - 1) : RatioGeq(rows[i][2], rows[i + 1][2])
           /\ \A ng \in distinct \ ranked :
                 (Len(rows) > 0 /\ HasBaseline(tbl, ng)) =>
                     RatioGeq(rows[Len(rows)][2], StatedRatio(ngrams, tbl, ng))

\* two n-grams of three ranked against the bigram baseline, the first row
\* being an n-gram the table has not, rated by the table's least value
C15_Witness ==
    /\ called = "rankOveruseWithCounts"
    /\ callArgs.topK = 2
    /\ Len(callResult) = 2
    /\ Cardinality({callArgs.ngrams[i] : i \in 1..Len(callArgs.ngrams)}) = 3
    /\ ~MapHas(callArgs.humanFreqMap, callResult[1][1])
    /\ Cardinality(PositiveValues(callArgs.humanFreqMap)) = 2
    /\ callResult[1][2].h = Frac(1, 4)

\* the number of distinct tokens among tokens[p + 1 .. p + w]
DistinctIn(tokens, p, w) == Cardinality({tokens[p + j] : j \in 1..w})

\* the sum of the distinct-token counts of the windows at offsets p .. last
RECURSIVE DistinctSum(_, _, _, _)
DistinctSum(tokens, w, p, last) ==
    IF p > last THEN 0
    ELSE DistinctIn(tokens, p, w) + DistinctSum(tokens, w, p + 1, last)

\* C16: computeMATTR(tokens, w) returns 0 for an empty token list, equals
\* (distinct tokens) / (total tokens) whenever len(tokens) < w, for any window
\* w, and otherwise equals the average, over all len(tokens) - w + 1 window
\* positions, of (distinct tokens in the window) / w. The average is stated
\* for windows of at least one token.
C16_MovingAverageTTR ==
    called = "computeMATTR" =>
        LET tokens == callArgs.tokens
            w == callArgs.windowSize
            n == Len(tokens)
        IN /\ n = 0 => callResult = Num(0)
           /\ (n > 0 /\ n < w) => callResult = Frac(DistinctIn(tokens, 0, n), n)
           /\ (n > 0 /\ n >= w /\ w >= 1) =>
                 callResult = Frac(DistinctSum(tokens, w, 0, n - w), w * (n - w + 1))

\* four tokens under a window of two: the windows hold 1, 2 and 1 distinct
\* tokens, and the average differs from the ratio over the whole list
C16_Witness ==
    /\ called = "computeMATTR"
    /\ callArgs.tokens = << <<"a">>, <<"a">>, <<"b">>, <<"b">> >>
    /\ callArgs.windowSize = 2
    /\ callResult = Frac(2, 3)

\* a text with its curly quotation marks written straight
Straighten(s) ==
    [i \in 1..Len(s) |->
        IF s[i] \in {"LSQUO", "RSQUO"} THEN "'"
        ELSE IF s[i] \in {"LDQUO", "RDQUO"} THEN "\"" ELSE s[i]]

\* C17: tokenisation is deterministic and insensitive to quote style:
\* wordsOnlyLower returns the same token sequence for the same text on every
\* call and for any two texts that differ only in curly versus straight
\* quotes, and the zipf lookup returns the same value for a word written with
\* a curly apostrophe and with a straight apostrophe.
C17_QuoteStyleIgnored ==
    /\ called = "wordsOnlyLower" =>
          /\ callResult = wordsOnlyLower(callArgs.s)
          /\ callResult = wordsOnlyLower(Straighten(callArgs.s))
    /\ called = "lookupZipf" =>
          /\ callResult = lookupZipf(callArgs.word)
          /\ callResult = lookupZipf(Straighten(callArgs.word))

\* a word written with a curly apostrophe is found in the loaded table under
\* its straight spelling
C17_Witness ==
    /\ called = "lookupZipf"
    /\ callArgs.word = <<"a", "RSQUO", "B">>
    /\ wordfreq # Null
    /\ <<"a", "'", "b">> \in DOMAIN wordfreq.map
    /\ callResult = wordfreq.map[<<"a", "'", "b">>]
    /\ callResult # wordfreq.map[<<"a">>]

StoreContents ==
    <<wordfreq, humanBigramFreq, humanTrigramFreq, slopWords, slopBigrams,
      slopTrigrams>>

AnalysisCalls ==
    {"analyzeText", "computeSlopIndex", "rankOveruseWithCounts", "computeMATTR",
     "scoreText", "wordsOnlyLower", "lookupZipf", "lookupFrequency", "none"}

C19_StoresReadOnly ==
    [][/\ called' \in AnalysisCalls \cup {"loadAllData", "loadAllData threw"}
       /\ called' \in AnalysisCalls => StoreContents' = StoreContents]_vars

\* an analysis call has returned its result on stores that a load has filled
C19_Witness ==
    /\ called \in {"analyzeText", "lookupZipf", "rankOveruseWithCounts",
                   "computeSlopIndex"}
    /\ callResult # Null
    /\ wordfreq # Null
    /\ DOMAIN wordfreq.map # {}
    /\ slopWords # {}
    /\ humanBigramFreq # <<>>
    /\ humanTrigramFreq # <<>>

\* C20: analyzeText returns a result only when all three stores have been
\* loaded successfully: in every interleaving of the three concurrent loads
\* of loadAllData (any of which may fail) with analysis calls, a call made
\* before all three loads have completed, or after a load has failed, yields
\* no AnalysisResult.
C20_ResultOnlyWhenLoaded ==
    (called = "analyzeText" /\ callResult # Null) =>
        /\ loading # Null
        /\ loading.pending = {}
        /\ ~loading.rejected

\* C26: normalizeText substitutes characters one for one: the result is as
\* long as the text, a curly quote or dash is replaced at its own index by
\* its ASCII counterpart, and every other character stays where it was.
Substituted ==
    [LDQUO |-> "\"", RDQUO |-> "\"", LSQUO |-> "'", RSQUO |-> "'",
     EMDASH |-> "-", ENDASH |-> "-"]

C26_OneForOne ==
    called = "normalizeText" =>
        /\ Len(tNorm) = Len(text)
        /\ \A i \in 1..Len(text) :
              tNorm[i] = IF text[i] \in DOMAIN Substituted
                         THEN Substituted[text[i]] ELSE text[i]

\* a text in which a quote and a dash are replaced ahead of a character
\* that keeps its offset
C26_Witness ==
    /\ called = "normalizeText"
    /\ Len(text) >= 3
    /\ \E i, j, k \in 1..Len(text) :
          /\ i < k /\ j < k
          /\ text[i] \in {"RSQUO", "LDQUO"} /\ tNorm[i] \in {"'", "\""}
          /\ text[j] = "EMDASH" /\ tNorm[j] = "-"
          /\ text[k] = "a" /\ tNorm[k] = "a"
\* C24: for spans that tile the text and a match [s, e) with s < e,
\* coveredSentenceRange returns (lo, hi), lo the first span ending after s
\* and hi the last span starting before e; lo <= hi, the range covers the
\* match and no narrower range does; the match is discarded exactly when it
\* is empty or no range of spans covers it.
CoveringRanges(sp, s, e) ==
    {r \in (0..(Len(sp) - 1)) \X (0..(Len(sp) - 1)) :
        /\ r[1] <= r[2]
        /\ sp[r[1] + 1][1] <= s
        /\ e <= sp[r[2] + 1][2]}

C24_MinimalCoveringRange ==
    called = "coveredSentenceRange" =>
        LET s == callArgs.start
            e == callArgs.end
            cover == CoveringRanges(spans, s, e)
        IN IF s < e /\ cover # {}
           THEN /\ callResult # Null
                /\ callResult \in cover
                /\ \A r \in cover : r[1] <= callResult[1] /\ callResult[2] <= r[2]
                /\ spans[callResult[1] + 1][2] > s
                /\ \A i \in 1..callResult[1] : spans[i][2] <= s
                /\ spans[callResult[2] + 1][1] < e
                /\ \A i \in (callResult[2] + 2)..Len(spans) : spans[i][1] >= e
           ELSE callResult = Null

\* a match that starts on the boundary of two sentences and reaches into a
\* third span
C24_Witness ==
    /\ called = "coveredSentenceRange"
    /\ Len(spans) >= 3
    /\ callResult # Null
    /\ callResult[1] >= 1
    /\ callResult[2] > callResult[1]
    /\ callArgs.start = spans[callResult[1]][2]
\* C25: a Stage 2 match [ss, se) of the stream maps to the raw range from
\* the least rawStart to the greatest rawEnd of exactly the pieces whose
\* stream range overlaps it, and is dropped when none does; the piece table
\* has non-empty stream ranges, contiguous from 0 to the length of the
\* stream, and non-decreasing raw offsets within the text.
PieceTableOk(pcs, stream, t) ==
    /\ pcs # <<>> => pcs[1][1] = 0 /\ pcs[Len(pcs)][2] = Len(stream)
    /\ pcs = <<>> => Len(stream) = 0
    /\ \A k \in 1..Len(pcs) :
          /\ pcs[k][1] < pcs[k][2]
          /\ 0 <= pcs[k][3] /\ pcs[k][3] <= pcs[k][4] /\ pcs[k][4] <= Len(t)
    /\ \A k \in 1..(Len(pcs) - 1) :
          /\ pcs[k][2] = pcs[k + 1][1]
          /\ pcs[k][4] <= pcs[k + 1][3]

OverlappingPieces(pcs, ss, se) ==
    {k \in 1..Len(pcs) : pcs[k][1] < se /\ ss < pcs[k][2]}

C25_StreamToRaw ==
    called = "streamToRaw" =>
        LET over == OverlappingPieces(pieces, callArgs.ss, callArgs.se)
        IN /\ PieceTableOk(pieces, callArgs.stream, tNorm)
           /\ IF over = {} THEN callResult = Null
              ELSE /\ callResult # Null
                   /\ \E k \in over : callResult[1] = pieces[k][3]
                   /\ \A k \in over : callResult[1] <= pieces[k][3]
                   /\ \E k \in over : callResult[2] = pieces[k][4]
                   /\ \A k \in over : callResult[2] >= pieces[k][4]

\* a match that overlaps two pieces of a stream made longer than the text by
\* an inserted blank or a verb placeholder, so that the stream offsets
\* differ from the raw ones
C25_Witness ==
    /\ called = "streamToRaw"
    /\ Cardinality(OverlappingPieces(pieces, callArgs.ss, callArgs.se)) >= 2
    /\ Cardinality(OverlappingPieces(pieces, callArgs.ss, callArgs.se)) < Len(pieces)
    /\ callResult # Null
    /\ callResult[1] < callArgs.ss
    /\ callResult[2] - callResult[1] >= 2
    /\ Len(callArgs.stream) > Len(tNorm)
\* C21: analysis calls carry no state from one call to the next: whatever
\* earlier calls on other texts left behind (the lastIndex of the shared
\* regex objects in particular), extractContrastMatches returns what a call
\* on a freshly loaded module returns for the same text, the same tagging
\* and the same regex matches.
FreshResults ==
    LET tn == normalizeText(text)
        sp == sentenceSpans(tn)
        stage2 == tagger # Null
        tagres == IF stage2 THEN tagStreamWithOffsets(tn, callArgs.tagged)
                  ELSE [stream |-> <<>>, pieces |-> <<>>]
        c1 == Stage1Candidates(tn, sp, STAGE1_REGEXES[1], callArgs.m1, 1)
        c2 == IF stage2
              THEN Stage2Candidates(tn, sp, tagres.pieces, STAGE2_REGEXES[1],
                                    callArgs.m2, 1)
              ELSE <<>>
    IN BuildResults(tn, sp, mergeIntervals(c1 \o c2))

C21_NoStateBetweenCalls ==
    called = "extractContrastMatches" => results = FreshResults

\* a call that found the Stage 2 regex left behind its match by an earlier
\* call, and whose own Stage 2 match starts before that offset and is
\* reported
C21_Witness ==
    /\ called = "extractContrastMatches"
    /\ callArgs.found.stage2 > 0
    /\ Len(callArgs.m2) = 1
    /\ callArgs.m2[1][1] < callArgs.found.stage2
    /\ \E i \in 1..Len(candidates) : candidates[i].pattern_name[1] = "S2_"
    /\ results # <<>>

\* ---------------------------------------------- session-utils.ts: hierarchy
\* most sessions handed to buildAgentHierarchy
MaxSessions == 3

\* parentId === null
NoParent == ""

\* the ids of the sessions, and an id no session has
SessionIds == {"a", "b", "c"}
UnknownId == "x"

\* the Session objects of the input: the fields buildAgentHierarchy reads
Sessions ==
    {[id |-> i, parentId |-> q, isAgent |-> g, agentId |-> IF g THEN i ELSE "",
      isActive |-> TRUE] :
        i \in SessionIds, q \in SessionIds \cup {NoParent, UnknownId}, g \in BOOLEAN}

\* the place of the entry of key id in the Map, 0 where it has none
MapIndex(nodeMap, id) ==
    LET at == {i \in 1..Len(nodeMap) : nodeMap[i].id = id}
    IN  IF at = {} THEN 0 ELSE CHOOSE i \in at : TRUE

\* nodeMap.set(node.id, node): a key the Map holds keeps its place
NodeMapSet(nodeMap, node) ==
    LET i == MapIndex(nodeMap, node.id)
    IN  IF i = 0 THEN Append(nodeMap, node) ELSE [nodeMap EXCEPT ![i] = node]

\* the first pass: one node per session, from session i on
RECURSIVE CreateNodes(_, _, _)
CreateNodes(sessionList, i, nodeMap) ==
    IF i > Len(sessionList) THEN nodeMap
    ELSE LET session == sessionList[i]
             displayName == IF session.isAgent /\ session.agentId # ""
                            THEN session.agentId ELSE "Main Session"
             node == [id |-> session.id, sessionId |-> session.id,
                      agentId |-> session.agentId, displayName |-> displayName,
                      parentId |-> session.parentId, isActive |-> session.isActive,
                      children |-> <<>>, depth |-> 0]
         IN  CreateNodes(sessionList, i + 1, NodeMapSet(nodeMap, node))

\* the second pass: the values of the Map in its order, from value i on; a
\* node is pushed to the children of its parent or to the roots
RECURSIVE LinkNodes(_, _, _)
LinkNodes(nodeMap, roots, i) ==
    IF i > Len(nodeMap) THEN [nodeMap |-> nodeMap, roots |-> roots]
    ELSE LET node == nodeMap[i]
             parentAt == MapIndex(nodeMap, node.parentId)
         IN  IF node.parentId # NoParent /\ parentAt # 0
             THEN LinkNodes([nodeMap EXCEPT ![parentAt].children = Append(@, node.id)],
                            roots, i + 1)
             ELSE LinkNodes(nodeMap, Append(roots, node.id), i + 1)

\* setDepths(node, depth), and its loop over the children from child j on
RECURSIVE SetDepths(_, _, _)
RECURSIVE SetChildDepths(_, _, _, _)
SetDepths(nodeMap, id, depth) ==
    LET at == MapIndex(nodeMap, id)
    IN  SetChildDepths([nodeMap EXCEPT ![at].depth = depth], nodeMap[at].children, 1,
                       depth + 1)

SetChildDepths(nodeMap, children, j, depth) ==
    IF j > Len(children) THEN nodeMap
    ELSE SetChildDepths(SetDepths(nodeMap, children[j], depth), children, j + 1, depth)

\* the third pass: setDepths(root, 0) for the roots from root r on
RECURSIVE SetRootDepths(_, _, _)
SetRootDepths(nodeMap, roots, r) ==
    IF r > Len(roots) THEN nodeMap
    ELSE SetRootDepths(SetDepths(nodeMap, roots[r], 0), roots, r + 1)

\* buildAgentHierarchy(sessions): the roots returned, as ids, and the node
\* objects they and their children arrays refer to
buildAgentHierarchy(sessionList) ==
    IF Len(sessionList) = 0 THEN [roots |-> <<>>, nodeMap |-> <<>>]
    ELSE LET linked == LinkNodes(CreateNodes(sessionList, 1, <<>>), <<>>, 1)
         IN  [roots |-> linked.roots,
              nodeMap |-> SetRootDepths(linked.nodeMap, linked.roots, 1)]

BuildAgentHierarchyCall ==
    /\ called = "none"
    /\ called' = "buildAgentHierarchy"
    /\ \E sessionList \in SeqsUpTo(Sessions, MaxSessions) :
        /\ callArgs' = sessionList
        /\ callResult' = buildAgentHierarchy(sessionList)
    /\ UNCHANGED <<varsViewer, text, spans, varsContrast, varsScore, varsWordfreq,
                   varsStores>>

InitHierarchy == IdleAnalysis /\ IdleViewer

NextHierarchy == BuildAgentHierarchyCall

SpecHierarchy == InitHierarchy /\ [][NextHierarchy]_vars

\* the nodes of the returned forest in walking order: each with the node
\* whose children array holds it (NoParent for a root)
RECURSIVE Walk(_, _, _)
RECURSIVE WalkAll(_, _, _, _)
Walk(nodeMap, id, via) ==
    <<[id |-> id, via |-> via]>> \o WalkAll(nodeMap, nodeMap[MapIndex(nodeMap, id)].children,
                                            1, id)

WalkAll(nodeMap, ids, j, via) ==
    IF j > Len(ids) THEN <<>>
    ELSE Walk(nodeMap, ids[j], via) \o WalkAll(nodeMap, ids, j + 1, via)

Forest(hierarchy) == WalkAll(hierarchy.nodeMap, hierarchy.roots, 1, NoParent)

\* the places of the forest that hold the node of a session
PlacesOf(hierarchy, session) ==
    {p \in 1..Len(Forest(hierarchy)) :
        LET node == hierarchy.nodeMap[MapIndex(hierarchy.nodeMap, Forest(hierarchy)[p].id)]
        IN  /\ node.id = session.id
            /\ node.parentId = session.parentId
            /\ node.agentId = session.agentId}

\* a session is where the hierarchy rule puts it: below its parent, one
\* deeper, or among the roots at depth 0
PlacedByRule(hierarchy, sessionList, session) ==
    \A p \in PlacesOf(hierarchy, session) :
        LET place == Forest(hierarchy)[p]
            node == hierarchy.nodeMap[MapIndex(hierarchy.nodeMap, place.id)]
        IN  IF \E i \in 1..Len(sessionList) : sessionList[i].id = session.parentId
            THEN /\ place.via = session.parentId
                 /\ node.depth =
                      hierarchy.nodeMap[MapIndex(hierarchy.nodeMap, place.via)].depth + 1
            ELSE place.via = NoParent /\ node.depth = 0

UniqueIds(sessionList) ==
    \A i, j \in 1..Len(sessionList) : sessionList[i].id = sessionList[j].id => i = j

RECURSIVE LeadsToRoot(_, _, _)
LeadsToRoot(sessionList, id, fuel) ==
    LET at == {i \in 1..Len(sessionList) : sessionList[i].id = id}
    IN  \/ at = {}
        \/ /\ fuel > 0
           /\ \A i \in at : \/ sessionList[i].parentId = NoParent
                            \/ LeadsToRoot(sessionList, sessionList[i].parentId, fuel - 1)

C23_TreeInputsPlacedOnce ==
    (/\ called = "buildAgentHierarchy"
     /\ UniqueIds(callArgs)
     /\ \A i \in 1..Len(callArgs) : LeadsToRoot(callArgs, callArgs[i].id, MaxSessions)) =>
        \A i \in 1..Len(callArgs) :
            /\ Cardinality(PlacesOf(callResult, callArgs[i])) = 1
            /\ PlacedByRule(callResult, callArgs, callArgs[i])

\* ------------------------------------------------- useWebSocket: reconnection
DEFAULT_MAX_RECONNECT_ATTEMPTS == 10
DEFAULT_BASE_RECONNECT_DELAY == 1000
DEFAULT_MAX_RECONNECT_DELAY == 30000

\* most WebSocket objects one hook creates
MaxSockets == 12

\* the options of a hook: the defaults of useWebSocket(), and custom values;
\* url stands for whether new WebSocket(url) accepts the url
HookOptions ==
    {[url |-> "ws://localhost:3333",
      maxReconnectAttempts |-> DEFAULT_MAX_RECONNECT_ATTEMPTS,
      baseReconnectDelay |-> DEFAULT_BASE_RECONNECT_DELAY,
      maxReconnectDelay |-> DEFAULT_MAX_RECONNECT_DELAY]}
    \cup [url : {"ws://localhost:3333", "not a url"},
          maxReconnectAttempts : {0, 1, 3},
          baseReconnectDelay : {500, 1000},
          maxReconnectDelay : {1000, 3000}]

UrlAccepted(url) == url # "not a url"

ConnectionLost == "Connection lost. Failed to reconnect after maxReconnectAttempts attempts."
FailedToConnect == "Failed to connect to server"

\* Math.pow(2, n) for a count n
RECURSIVE Pow2(_)
Pow2(n) == IF n = 0 THEN 1 ELSE 2 * Pow2(n - 1)

getReconnectDelay_uncapped(opts, attempt) == opts.baseReconnectDelay * Pow2(attempt)

\* getReconnectDelay() with reconnectAttemptRef.current = attempt
getReconnectDelay(opts, attempt) ==
    Min2(opts.baseReconnectDelay * Pow2(attempt), opts.maxReconnectDelay)

\* ws.close(): a socket that is connecting or open starts closing
CloseSocket(socketList, n) ==
    IF socketList[n].readyState \in {"CONNECTING", "OPEN"}
    THEN [socketList EXCEPT ![n].readyState = "CLOSING"]
    ELSE socketList

\* connect(), called with isUnmountedRef.current = unmounted
Connect(unmounted) ==
    IF unmounted
    THEN UNCHANGED <<sockets, wsRef, error, isLoading>>
    ELSE LET cleaned == IF wsRef # 0 THEN CloseSocket(sockets, wsRef) ELSE sockets
         IN  IF UrlAccepted(hookOptions.url)
             THEN /\ sockets' = Append(cleaned, [readyState |-> "CONNECTING"])
                  /\ wsRef' = Len(cleaned) + 1
                  /\ UNCHANGED <<error, isLoading>>
             ELSE /\ sockets' = cleaned
                  /\ wsRef' = 0
                  /\ error' = FailedToConnect
                  /\ isLoading' = FALSE

\* the effect of the hook runs: isUnmountedRef.current = false; connect()
Mount ==
    /\ hookOptions # Null
    /\ reconnects.effects = 0
    /\ isUnmountedRef' = FALSE
    /\ Connect(FALSE)
    /\ reconnects' = [reconnects EXCEPT !.effects = 1]
    /\ UNCHANGED <<varsAnalysis, varsWatcher, hookOptions, isConnected, projects,
                   reconnectAttemptRef, reconnectTimeoutRef, hookTimers>>

\* ws.onopen of socket n
OnOpen(n) ==
    /\ sockets[n].readyState = "CONNECTING"
    /\ IF isUnmountedRef
       THEN /\ sockets' = [sockets EXCEPT ![n].readyState = "CLOSING"]
            /\ UNCHANGED <<isConnected, error, reconnectAttemptRef, reconnects>>
       ELSE /\ sockets' = [sockets EXCEPT ![n].readyState = "OPEN"]
            /\ isConnected' = TRUE
            /\ error' = NoError
            /\ reconnectAttemptRef' = 0
            /\ reconnects' = [reconnects EXCEPT !.attempts = 0, !.opened = @ + 1]
    /\ UNCHANGED <<varsAnalysis, varsWatcher, hookOptions, isLoading, projects, wsRef,
                   reconnectTimeoutRef, isUnmountedRef, hookTimers>>

\* ws.onclose of socket n, for the close event [code, wasClean]
OnClose(n, event) ==
    /\ sockets[n].readyState # "CLOSED"
    /\ sockets' = [sockets EXCEPT ![n].readyState = "CLOSED"]
    /\ IF isUnmountedRef
       THEN UNCHANGED <<isConnected, wsRef, reconnectTimeoutRef, hookTimers, error,
                        isLoading, reconnects>>
       ELSE /\ isConnected' = FALSE
            /\ wsRef' = 0
            /\ reconnects' = [reconnects EXCEPT !.lastClose = event]
            /\ IF event.code = 1000 /\ event.wasClean
               THEN UNCHANGED <<reconnectTimeoutRef, hookTimers, error, isLoading>>
               ELSE IF reconnectAttemptRef < hookOptions.maxReconnectAttempts
                    THEN /\ hookTimers' =
                              Append(hookTimers,
                                     [delay |-> getReconnectDelay(hookOptions,
                                                                  reconnectAttemptRef),
                                      state |-> "pending"])
                         /\ reconnectTimeoutRef' = Len(hookTimers) + 1
                         /\ UNCHANGED <<error, isLoading>>
                    ELSE /\ error' = ConnectionLost
                         /\ isLoading' = FALSE
                         /\ UNCHANGED <<reconnectTimeoutRef, hookTimers>>
    /\ UNCHANGED <<varsAnalysis, varsWatcher, hookOptions, projects, reconnectAttemptRef,
                   isUnmountedRef>>

\* the callback of timer t runs: reconnectAttemptRef.current++; connect()
ReconnectTimerFires(t) ==
    /\ hookTimers[t].state = "pending"
    /\ Len(sockets) < MaxSockets
    /\ hookTimers' = [hookTimers EXCEPT ![t].state = "fired"]
    /\ reconnectAttemptRef' = reconnectAttemptRef + 1
    /\ Connect(isUnmountedRef)
    /\ reconnects' = IF isUnmountedRef THEN reconnects
                     ELSE [reconnects EXCEPT !.attempts = @ + 1, !.lastClose = Null]
    /\ UNCHANGED <<varsAnalysis, varsWatcher, hookOptions, isConnected, projects,
                   reconnectTimeoutRef, isUnmountedRef>>

\* the cleanup of the effect
Unmount ==
    /\ reconnects.effects = 1
    /\ ~isUnmountedRef
    /\ isUnmountedRef' = TRUE
    /\ hookTimers' = IF reconnectTimeoutRef # 0 /\ hookTimers[reconnectTimeoutRef].state = "pending"
                     THEN [hookTimers EXCEPT ![reconnectTimeoutRef].state = "cleared"]
                     ELSE hookTimers
    /\ reconnectTimeoutRef' = 0
    /\ sockets' = IF wsRef # 0 THEN CloseSocket(sockets, wsRef) ELSE sockets
    /\ wsRef' = 0
    /\ UNCHANGED <<varsAnalysis, varsWatcher, hookOptions, isConnected, isLoading, error,
                   projects, reconnectAttemptRef, reconnects>>

\* the close events a socket can end with
CloseEvents == [code : {1000, 1006}, wasClean : BOOLEAN]

\* a component calls useWebSocket(options)
InitHook ==
    /\ IdleAnalysis
    /\ IdleWatcher
    /\ hookOptions \in HookOptions
    /\ isConnected = FALSE
    /\ isLoading = TRUE
    /\ error = NoError
    /\ projects = <<>>
    /\ wsRef = 0
    /\ reconnectAttemptRef = 0
    /\ reconnectTimeoutRef = 0
    /\ isUnmountedRef = FALSE
    /\ sockets = <<>>
    /\ hookTimers = <<>>
    /\ reconnects = NoReconnects

NextHook ==
    \/ Mount
    \/ \E n \in DOMAIN sockets : OnOpen(n)
    \/ \E n \in DOMAIN sockets, event \in CloseEvents : OnClose(n, event)
    \/ \E t \in DOMAIN hookTimers : ReconnectTimerFires(t)
    \/ Unmount

SpecHook == InitHook /\ [][NextHook]_vars

\* the timers of the hook that are set and have neither run nor been cleared
PendingReconnects == {t \in DOMAIN hookTimers : hookTimers[t].state = "pending"}

\* the close handled last was not a clean close with code 1000
UncleanClose ==
    /\ reconnects.lastClose # Null
    /\ ~(reconnects.lastClose.code = 1000 /\ reconnects.lastClose.wasClean)

\* C22: after a close that is not a clean code-1000 close the hook schedules
\* one reconnection after min(baseReconnectDelay * 2^k, maxReconnectDelay) ms,
\* k being the reconnection attempts made since the last successful open; k
\* never exceeds maxReconnectAttempts, and once k has reached it the hook sets
\* the error state and has no timer pending; while a socket is open k is 0.
C22_ReconnectBackoff ==
    LET k == reconnects.attempts
    IN  /\ k <= hookOptions.maxReconnectAttempts
        /\ \A t \in PendingReconnects :
              hookTimers[t].delay =
                  Min2(hookOptions.baseReconnectDelay * 2^k, hookOptions.maxReconnectDelay)
        /\ (~isUnmountedRef /\ UncleanClose) =>
              IF k < hookOptions.maxReconnectAttempts
              THEN Cardinality(PendingReconnects) = 1 /\ error # ConnectionLost
              ELSE PendingReconnects = {} /\ error = ConnectionLost
        /\ error = ConnectionLost => PendingReconnects = {}
        /\ (wsRef # 0 /\ sockets[wsRef].readyState = "OPEN") =>
              reconnectAttemptRef = 0 /\ k = 0

\* a hook with the default options that had an open socket, lost it, and gave
\* up after ten attempts, the later ones after the capped delay
C22_Witness ==
    /\ hookOptions.maxReconnectAttempts = DEFAULT_MAX_RECONNECT_ATTEMPTS
    /\ reconnects.opened >= 1
    /\ reconnects.attempts = DEFAULT_MAX_RECONNECT_ATTEMPTS
    /\ error = ConnectionLost
    /\ \E t \in DOMAIN hookTimers : hookTimers[t].delay = DEFAULT_MAX_RECONNECT_DELAY
    /\ \E t \in DOMAIN hookTimers : hookTimers[t].delay = DEFAULT_BASE_RECONNECT_DELAY

\* ---------------------------------------------------- useWebSocket: messages
\* most sessions of a project on the client
MaxClientSessions == 2

\* the uuids of the messages, and the messages: the one of uuid "u1" exists in
\* two versions
Uuids == {"u1", "u2"}
SessionMessages == [uuid : Uuids, rev : {1}] \cup {[uuid |-> "u1", rev |-> 2]}

\* lists of messages with distinct uuids
DistinctUuids(messages) ==
    \A i, j \in 1..Len(messages) : messages[i].uuid = messages[j].uuid => i = j

MessageLists == {l \in SeqsUpTo(SessionMessages, Cardinality(Uuids)) : DistinctUuids(l)}

ProjectPaths == {"/p", "/q"}
ClientSessionIds == {"s1", "s2"}

\* a SessionSummary of the server: stats.messageCount counts the messages of
\* the file, which initial_state does not carry
SessionSummaries ==
    [id : ClientSessionIds, isActive : {TRUE}, stats : [messageCount : {2}]]

\* sessionSummaryToSession(summary)
sessionSummaryToSession(summary) ==
    [id |-> summary.id, isActive |-> summary.isActive, stats |-> summary.stats,
     messages |-> <<>>]

\* projectSummaryToProject(summary)
projectSummaryToProject(summary) ==
    [path |-> summary.path,
     sessions |-> [i \in 1..Len(summary.sessions) |->
                      sessionSummaryToSession(summary.sessions[i])]]

\* the place of a path in the projects Map, 0 where it has none
ProjectIndex(prev, path) ==
    LET at == {i \in 1..Len(prev) : prev[i].path = path}
    IN  IF at = {} THEN 0 ELSE CHOOSE i \in at : TRUE

\* newMap.set(path, project) on a copy of the Map
ProjectSet(prev, path, project) ==
    IF ProjectIndex(prev, path) = 0 THEN Append(prev, project)
    ELSE [prev EXCEPT ![ProjectIndex(prev, path)] = project]

\* projectSummariesToMap(summaries), from summary i on
RECURSIVE projectSummariesToMap(_, _, _)
projectSummariesToMap(summaries, i, map) ==
    IF i > Len(summaries) THEN map
    ELSE projectSummariesToMap(summaries, i + 1,
             ProjectSet(map, summaries[i].path, projectSummaryToProject(summaries[i])))

\* the messages of the server
InitialStates ==
    {[type |-> "initial_state", projects |-> <<>>]}
    \cup {[type |-> "initial_state",
           projects |-> <<[path |-> "/p", sessions |-> ss]>>] :
              ss \in {l \in SeqsUpTo(SessionSummaries, MaxClientSessions) :
                        \A i, j \in 1..Len(l) : l[i].id = l[j].id => i = j}}

SessionUpdates ==
    [type : {"session_update"}, projectPath : ProjectPaths, sessionId : ClientSessionIds,
     messages : MessageLists \ {<<>>}]

WSMessages ==
    InitialStates
    \cup [type : {"session_messages"}, projectPath : ProjectPaths,
          sessionId : ClientSessionIds, messages : MessageLists]
    \cup SessionUpdates
    \cup [type : {"new_session"}, projectPath : {"/p"},
          session : {sessionSummaryToSession(s) : s \in SessionSummaries}]
    \cup [type : {"session_complete"}, projectPath : ProjectPaths,
          sessionId : ClientSessionIds]
    \cup [type : {"connection_status"}, connected : {TRUE}]

\* the merge of session_update keeps every message the list holds
MergeMessages_all(session, messages) == session.messages \o messages

\* the merge of session_update: the messages whose uuid the list lacks
MergeMessages(session, messages) ==
    LET existingIds == {session.messages[i].uuid : i \in 1..Len(session.messages)}
        newMessages == SelectSeq(messages, LAMBDA msg : msg.uuid \notin existingIds)
    IN  session.messages \o newMessages

\* the updater a message hands to setProjects, applied to the Map prev
UpdateProjects(prev, message) ==
    LET at == ProjectIndex(prev, message.projectPath)
        project == prev[at]
        MapSessions(Op(_)) ==
            ProjectSet(prev, message.projectPath,
                       [project EXCEPT !.sessions =
                           [i \in 1..Len(project.sessions) |->
                               IF project.sessions[i].id = message.sessionId
                               THEN Op(project.sessions[i])
                               ELSE project.sessions[i]]])
        SetMessages(session) == [session EXCEPT !.messages = message.messages]
        Merge(session) ==
            LET mergedList == MergeMessages(session, message.messages)
            IN  [session EXCEPT !.messages = mergedList,
                                !.stats.messageCount = Len(mergedList)]
        Complete(session) == [session EXCEPT !.isActive = FALSE]
    IN  CASE message.type = "initial_state" ->
                 projectSummariesToMap(message.projects, 1, <<>>)
          [] message.type = "session_messages" ->
                 IF at = 0 THEN prev ELSE MapSessions(SetMessages)
          [] message.type = "session_update" ->
                 IF at = 0 THEN prev ELSE MapSessions(Merge)
          [] message.type = "new_session" ->
                 IF at # 0
                 THEN ProjectSet(prev, message.projectPath,
                          [project EXCEPT !.sessions = Append(@, message.session)])
                 ELSE ProjectSet(prev, message.projectPath,
                          [path |-> message.projectPath, sessions |-> <<message.session>>])
          [] message.type = "session_complete" ->
                 IF at = 0 THEN prev ELSE MapSessions(Complete)
          [] OTHER -> prev

\* the sessions a project of the Map holds, none for a path it lacks
SessionsAt(map, path) ==
    IF ProjectIndex(map, path) = 0 THEN <<>> ELSE map[ProjectIndex(map, path)].sessions

\* ws.onmessage of the open socket: handleMessage(event)
HandleMessage ==
    /\ wsRef # 0
    /\ sockets[wsRef].readyState = "OPEN"
    /\ \E message \in WSMessages :
        /\ message.type = "new_session" =>
              Len(SessionsAt(projects, message.projectPath)) < MaxClientSessions
        /\ projects' = UpdateProjects(projects, message)
        /\ isLoading' = IF message.type = "initial_state" THEN FALSE ELSE isLoading
        /\ error' = IF message.type = "initial_state" THEN NoError ELSE error
        /\ isConnected' = IF message.type = "connection_status" THEN message.connected
                          ELSE isConnected
        /\ called' = message.type
        /\ callArgs' = IF message.type = "session_update"
                       THEN [projectPath |-> message.projectPath,
                             sessionId |-> message.sessionId]
                       ELSE Null
    /\ UNCHANGED <<varsWatcher, text, spans, varsContrast, varsScore, varsWordfreq,
                   varsStores, callResult, hookOptions, wsRef, reconnectAttemptRef,
                   reconnectTimeoutRef, isUnmountedRef, sockets, hookTimers, reconnects>>

\* a mounted hook with the default options whose first socket has opened
InitMessages ==
    /\ IdleAnalysis
    /\ IdleWatcher
    /\ hookOptions \in {o \in HookOptions :
                          o.maxReconnectAttempts = DEFAULT_MAX_RECONNECT_ATTEMPTS}
    /\ isConnected = TRUE
    /\ isLoading = TRUE
    /\ error = NoError
    /\ projects = <<>>
    /\ wsRef = 1
    /\ reconnectAttemptRef = 0
    /\ reconnectTimeoutRef = 0
    /\ isUnmountedRef = FALSE
    /\ sockets = <<[readyState |-> "OPEN"]>>
    /\ hookTimers = <<>>
    /\ reconnects = [NoReconnects EXCEPT !.effects = 1, !.opened = 1]

NextMessages == HandleMessage

SpecMessages == InitMessages /\ [][NextMessages]_vars

\* the sessions of the Map a session_update for (path, id) applies to
TargetSessions(map, path, id) ==
    SelectSeq(SessionsAt(map, path), LAMBDA session : session.id = id)

\* the uuids of a list of messages
UuidsOf(messages) == {messages[i].uuid : i \in 1..Len(messages)}

\* the message lists of every session of the Map
AllMessageLists(map) ==
    [i \in 1..Len(map) |-> [j \in 1..Len(map[i].sessions) |-> map[i].sessions[j].messages]]

\* C30: once a session_update has been applied, the message list of its
\* session holds no uuid twice and stats.messageCount is the length of the
\* list; and an update all of whose uuids the list of its session holds, as
\* a re-delivered one does, leaves every message list unchanged.
C30_SessionUpdateIdempotent ==
    /\ called = "session_update" =>
          \A i \in 1..Len(TargetSessions(projects, callArgs.projectPath, callArgs.sessionId)) :
              LET session == TargetSessions(projects, callArgs.projectPath,
                                            callArgs.sessionId)[i]
              IN  /\ DistinctUuids(session.messages)
                  /\ session.stats.messageCount = Len(session.messages)
    /\ \A update \in SessionUpdates :
          (\A i \in 1..Len(TargetSessions(projects, update.projectPath, update.sessionId)) :
              UuidsOf(update.messages) \subseteq
                  UuidsOf(TargetSessions(projects, update.projectPath,
                                         update.sessionId)[i].messages)) =>
              AllMessageLists(UpdateProjects(projects, update)) = AllMessageLists(projects)

\* a session_update has just been applied to a session that now holds two
\* messages, next to a session whose count is still the one of its summary
C30_Witness ==
    /\ called = "session_update"
    /\ Len(SessionsAt(projects, "/p")) = 2
    /\ \E i, j \in 1..2 :
          LET session == SessionsAt(projects, "/p")[i]
              other == SessionsAt(projects, "/p")[j]
          IN  /\ session.id = callArgs.sessionId
              /\ callArgs.projectPath = "/p"
              /\ Len(session.messages) = 2
              /\ session.stats.messageCount = 2
              /\ other.id # session.id
              /\ Len(other.messages) = 0
              /\ other.stats.messageCount = 2

\* ------------------------------------------------------------- watcher.ts
DEBOUNCE_MS == 100

\* the step of the clock, in ms
TimeStep == DEBOUNCE_MS \div 2
\* most lines a session file grows to
MaxLines == 2
\* most change events the directory watcher reports for one file
MaxEvents == 3
\* most deletions of one file
MaxDeletes == 1

\* file.size, in lines: every line takes the same number of bytes
FileSize(k) == IF files[k].exists THEN files[k].lines ELSE 0

\* the timers of the watcher that have run down
Expired == {t \in timers : t.remaining = 0}

\* the events of the watcher
NewSession == [type |-> "onNewSession", from |-> 0, to |-> 0]
SessionRemoved == [type |-> "onSessionRemoved", from |-> 0, to |-> 0]
\* onSessionUpdate with the messages of the lines from..to of the file
SessionUpdate(from, to) == [type |-> "onSessionUpdate", from |-> from, to |-> to]

\* a process creates the session file of key k
FileCreate(k) ==
    /\ ~files[k].exists
    /\ files' = [files EXCEPT ![k].exists = TRUE, ![k].lines = 0]
    /\ debounceLog' = [debounceLog EXCEPT ![k].dirty = TRUE]
    /\ UNCHANGED <<varsAnalysis, varsHook, fileStates, debounceTimers, timers, passes,
                   emitted>>

\* a process appends a message line to the session file of key k
FileAppend(k) ==
    /\ files[k].exists
    /\ files[k].lines < MaxLines
    /\ files' = [files EXCEPT ![k].lines = @ + 1]
    /\ debounceLog' = [debounceLog EXCEPT ![k].dirty = TRUE]
    /\ UNCHANGED <<varsAnalysis, varsHook, fileStates, debounceTimers, timers, passes,
                   emitted>>

\* a process deletes the session file of key k
FileDelete(k) ==
    /\ files[k].exists
    /\ files[k].deletions < MaxDeletes
    /\ files' = [files EXCEPT ![k].exists = FALSE, ![k].lines = 0, ![k].deletions = @ + 1]
    /\ debounceLog' = [debounceLog EXCEPT ![k].dirty = TRUE]
    /\ UNCHANGED <<varsAnalysis, varsHook, fileStates, debounceTimers, timers, passes,
                   emitted>>

ClearTimeout_none(timerSet, k, id) == timerSet

\* clearTimeout(existingTimer) for the timer number id of key k
ClearTimeout(timerSet, k, id) == {t \in timerSet : ~(t.key = k /\ t.id = id)}

\* handleFileChange for the file of key k: the timer of the key is cleared
\* and a new one is set
HandleFileChange(k) ==
    /\ Expired = {}
    /\ debounceLog[k].events < MaxEvents
    /\ LET existingTimer == debounceTimers[k]
           cleared == IF existingTimer # 0 THEN ClearTimeout(timers, k, existingTimer)
                      ELSE timers
           id == debounceLog[k].events + 1
       IN  /\ timers' = cleared \cup {[key |-> k, id |-> id, remaining |-> DEBOUNCE_MS]}
           /\ debounceTimers' = [debounceTimers EXCEPT ![k] = id]
           /\ debounceLog' =
                 [debounceLog EXCEPT
                     ![k].events = id,
                     ![k].since = 0,
                     ![k].bursts = IF debounceLog[k].events = 0
                                      \/ debounceLog[k].since >= DEBOUNCE_MS
                                   THEN @ + 1 ELSE @,
                     ![k].dirty = FALSE]
    /\ UNCHANGED <<varsAnalysis, varsHook, files, fileStates, passes, emitted>>

\* TimeStep ms pass
Tick ==
    /\ Expired = {}
    /\ timers # {} \/ \E k \in Keys : debounceLog[k].events > 0
                                        /\ debounceLog[k].since < DEBOUNCE_MS
    /\ timers' = {[t EXCEPT !.remaining = @ - TimeStep] : t \in timers}
    /\ debounceLog' = [k \in Keys |->
                          IF debounceLog[k].events = 0 THEN debounceLog[k]
                          ELSE [debounceLog[k] EXCEPT
                                   !.since = Min2(@ + TimeStep, DEBOUNCE_MS)]]
    /\ UNCHANGED <<varsAnalysis, varsHook, files, fileStates, debounceTimers, passes,
                   emitted>>

\* a processing pass for key k that awaits file.exists()
NewPass(k) ==
    [key |-> k, pc |-> "exists", io |-> "pending", state |-> 0, position |-> 0,
     size |-> 0, sample |-> Null]

\* timer t has run down: its callback starts a pass up to its first await
TimerFires(t) ==
    /\ t \in Expired
    /\ timers' = timers \ {t}
    /\ debounceTimers' = [debounceTimers EXCEPT ![t.key] = 0]
    /\ passes' = Append(passes, NewPass(t.key))
    /\ debounceLog' = [debounceLog EXCEPT ![t.key].started = @ + 1]
    /\ UNCHANGED <<varsAnalysis, varsHook, files, fileStates, emitted>>

\* the file operation pass i awaits is carried out: file.exists() sees
\* whether the file exists, file.text() reads its lines or fails
IoCompletes(i) ==
    /\ passes[i].io = "pending"
    /\ passes' = [passes EXCEPT
                     ![i].io = "done",
                     ![i].sample = [exists |-> files[passes[i].key].exists,
                                    lines |-> files[passes[i].key].lines]]
    /\ UNCHANGED <<varsAnalysis, varsHook, files, fileStates, debounceTimers, timers,
                   emitted, debounceLog>>

\* the sequence without its element i
RemoveAt(list, i) == SubSeq(list, 1, i - 1) \o SubSeq(list, i + 1, Len(list))

\* the objects fileStates has held for key k so far are numbered
NextStateId(k) ==
    1 + Len(SelectSeq(emitted[k], LAMBDA e : e.type = "onNewSession"))

\* pass i goes on after `await file.exists()` of the timer callback
ResumeExists(i) ==
    LET pass == passes[i]
        k == pass.key
        currentState == fileStates[k]
    IN  /\ pass.pc = "exists" /\ pass.io = "done"
        /\ IF ~pass.sample.exists
           THEN /\ IF fileStates[k] # Null
                   THEN /\ fileStates' = [fileStates EXCEPT ![k] = Null]
                        /\ emitted' = [emitted EXCEPT ![k] = Append(@, SessionRemoved)]
                   ELSE UNCHANGED <<fileStates, emitted>>
                /\ passes' = RemoveAt(passes, i)
           ELSE IF currentState = Null
                THEN /\ fileStates' = [fileStates EXCEPT
                                          ![k] = [position |-> 0, id |-> NextStateId(k)]]
                     /\ emitted' = [emitted EXCEPT ![k] = Append(@, NewSession)]
                     /\ passes' = [passes EXCEPT ![i].pc = "newExists",
                                                 ![i].io = "pending"]
                ELSE /\ UNCHANGED <<fileStates, emitted>>
                     /\ IF currentState.position >= FileSize(k)
                        THEN passes' = RemoveAt(passes, i)
                        ELSE passes' = [passes EXCEPT
                                           ![i].pc = "text",
                                           ![i].io = "pending",
                                           ![i].state = currentState.id,
                                           ![i].position = currentState.position,
                                           ![i].size = FileSize(k)]
        /\ UNCHANGED <<varsAnalysis, varsHook, files, debounceTimers, timers,
                       debounceLog>>

\* state.position = file.size for the entry fileStates holds for key k
SetPosition(k, position) ==
    IF fileStates[k] = Null THEN fileStates
    ELSE [fileStates EXCEPT ![k].position = position]

\* pass i goes on after `await file.exists()` of readAndParseFile
ResumeNewExists(i) ==
    LET pass == passes[i]
        k == pass.key
    IN  /\ pass.pc = "newExists" /\ pass.io = "done"
        /\ IF ~pass.sample.exists
           THEN /\ fileStates' = SetPosition(k, FileSize(k))
                /\ passes' = RemoveAt(passes, i)
           ELSE /\ passes' = [passes EXCEPT ![i].pc = "newText", ![i].io = "pending"]
                /\ UNCHANGED fileStates
        /\ UNCHANGED <<varsAnalysis, varsHook, files, debounceTimers, timers, emitted,
                       debounceLog>>

\* pass i goes on after `await file.text()` of readAndParseFile
ResumeNewText(i) ==
    LET pass == passes[i]
        k == pass.key
        messages == IF pass.sample.exists THEN pass.sample.lines ELSE 0
    IN  /\ pass.pc = "newText" /\ pass.io = "done"
        /\ emitted' = IF messages > 0
                      THEN [emitted EXCEPT ![k] = Append(@, SessionUpdate(1, messages))]
                      ELSE emitted
        /\ fileStates' = SetPosition(k, FileSize(k))
        /\ passes' = RemoveAt(passes, i)
        /\ UNCHANGED <<varsAnalysis, varsHook, files, debounceTimers, timers,
                       debounceLog>>

\* readFileFromPosition(filePath, position) once file.text() has answered:
\* the lines content.slice(position) holds, and newPosition
readFileFromPosition(sample, position, size) ==
    IF ~sample.exists THEN [from |-> 1, to |-> 0, newPosition |-> position]
    ELSE [from |-> position + 1, to |-> sample.lines, newPosition |-> size]

\* pass i goes on after `await file.text()` of readFileFromPosition; the
\* position is set on the state object the pass took from fileStates
ResumeText(i) ==
    LET pass == passes[i]
        k == pass.key
        read == readFileFromPosition(pass.sample, pass.position, pass.size)
    IN  /\ pass.pc = "text" /\ pass.io = "done"
        /\ emitted' = IF read.to >= read.from
                      THEN [emitted EXCEPT
                               ![k] = Append(@, SessionUpdate(read.from, read.to))]
                      ELSE emitted
        /\ fileStates' = IF fileStates[k] # Null /\ fileStates[k].id = pass.state
                         THEN [fileStates EXCEPT ![k].position = read.newPosition]
                         ELSE fileStates
        /\ passes' = RemoveAt(passes, i)
        /\ UNCHANGED <<varsAnalysis, varsHook, files, debounceTimers, timers,
                       debounceLog>>

\* the watcher after getInitialState() and start(): a session file is absent,
\* or it is there, still empty, and tracked
InitWatcher ==
    /\ IdleAnalysis
    /\ IdleHook
    /\ files \in [Keys -> {NoFile, [NoFile EXCEPT !.exists = TRUE, !.atStart = TRUE]}]
    /\ fileStates = [k \in Keys |-> IF files[k].exists THEN [position |-> 0, id |-> 0]
                                    ELSE Null]
    /\ debounceTimers = [k \in Keys |-> 0]
    /\ timers = {}
    /\ passes = <<>>
    /\ emitted = [k \in Keys |-> <<>>]
    /\ debounceLog = [k \in Keys |-> NoEvents]

\* the file of one key changes while the watcher runs
WatchedKey == "p:s1"

NextWatcher ==
    \/ FileCreate(WatchedKey)
    \/ FileAppend(WatchedKey)
    \/ FileDelete(WatchedKey)
    \/ HandleFileChange(WatchedKey)
    \/ Tick
    \/ \E t \in timers : TimerFires(t)
    \/ \E i \in DOMAIN passes : IoCompletes(i)
    \/ \E i \in DOMAIN passes : ResumeExists(i)
    \/ \E i \in DOMAIN passes : ResumeNewExists(i)
    \/ \E i \in DOMAIN passes : ResumeNewText(i)
    \/ \E i \in DOMAIN passes : ResumeText(i)

SpecWatcher == InitWatcher /\ [][NextWatcher]_vars

\* the numbers from..to in their order
RECURSIVE Range(_, _)
Range(from, to) == IF from > to THEN <<>> ELSE <<from>> \o Range(from + 1, to)

\* the lines of the file of key k handed to onSessionUpdate so far, in the
\* order of the calls, from event n on
RECURSIVE DeliveredFrom(_, _)
DeliveredFrom(k, n) ==
    IF n > Len(emitted[k]) THEN <<>>
    ELSE (IF emitted[k][n].type = "onSessionUpdate"
          THEN Range(emitted[k][n].from, emitted[k][n].to) ELSE <<>>)
         \o DeliveredFrom(k, n + 1)

Delivered(k) == DeliveredFrom(k, 1)

\* nothing is under way for key k: its last change was reported, no timer of
\* it is pending and no pass for it is in flight
Quiet(k) ==
    /\ ~debounceLog[k].dirty
    /\ \A t \in timers : t.key # k
    /\ \A i \in DOMAIN passes : passes[i].key # k

\* no line of a file that only grows is handed over twice or out of file order
NoLineTwice ==
    \A k \in Keys :
        files[k].deletions = 0 =>
            \A i \in 1..Len(Delivered(k)) : Delivered(k)[i] = i

\* no line of a file that only grows is skipped
NoLineSkipped ==
    \A k \in Keys :
        (files[k].deletions = 0 /\ Quiet(k)) => Len(Delivered(k)) >= files[k].lines

\* C27: for a session file that only grows, every message line is passed to
\* onSessionUpdate exactly once and in file order, under every interleaving
\* of change events, debounce timers, reads and appends.
C27_EachLineOnce == NoLineTwice /\ NoLineSkipped

\* whether the key is tracked after the events n.. of its log, as the events
\* tell it: onNewSession begins the tracking, onSessionRemoved ends it
RECURSIVE TrackedAfter(_, _, _)
TrackedAfter(k, n, tracked) ==
    IF n < 1 THEN tracked
    ELSE LET before == TrackedAfter(k, n - 1, tracked)
         IN  CASE emitted[k][n].type = "onNewSession" -> TRUE
               [] emitted[k][n].type = "onSessionRemoved" -> FALSE
               [] OTHER -> before

\* the key is tracked just before event n of its log
TrackedBefore(k, n) == TrackedAfter(k, n - 1, files[k].atStart)

\* no onSessionUpdate before the first onNewSession of a file first seen
\* after start-up
NewBeforeUpdate ==
    \A k \in Keys :
        ~files[k].atStart =>
            \A n \in 1..Len(emitted[k]) :
                emitted[k][n].type = "onSessionUpdate" =>
                    \E j \in 1..(n - 1) : emitted[k][j].type = "onNewSession"

\* onSessionRemoved only for a key that is tracked
RemovedOnlyTracked ==
    \A k \in Keys : \A n \in 1..Len(emitted[k]) :
        emitted[k][n].type = "onSessionRemoved" => TrackedBefore(k, n)

\* no onSessionUpdate between an onSessionRemoved and the next onNewSession
NoUpdateAfterRemoved ==
    \A k \in Keys : \A n \in 2..Len(emitted[k]) :
        emitted[k][n].type = "onSessionUpdate" =>
            \/ TrackedBefore(k, n)
            \/ \A j \in 1..(n - 1) : emitted[k][j].type # "onSessionRemoved"

\* C28: the events of a key are well ordered: onNewSession comes before any
\* onSessionUpdate of a file first seen after start-up, onSessionRemoved is
\* invoked only for a tracked key, and after onSessionRemoved there is no
\* onSessionUpdate for the key until a later onNewSession.
C28_EventsWellOrdered == NewBeforeUpdate /\ RemovedOnlyTracked /\ NoUpdateAfterRemoved

\* ------------------------------------------------------ watcher.ts: debounce
\* change events for the files of both keys, which themselves stay as they are
NextDebounce ==
    \/ \E k \in Keys : HandleFileChange(k)
    \/ Tick
    \/ \E t \in timers : TimerFires(t)
    \/ \E i \in DOMAIN passes : IoCompletes(i)
    \/ \E i \in DOMAIN passes : ResumeExists(i)

SpecDebounce == InitWatcher /\ [][NextDebounce]_vars

\* the pending timers of key k
TimersOf(k) == {t \in timers : t.key = k}

\* C29: a key has at most one pending debounce timer, and it runs down
\* DEBOUNCE_MS after the last change event of the key; the passes started for
\* a key are as many as its bursts of events (events less than DEBOUNCE_MS
\* apart), less the burst whose timer is still pending; the events of another
\* key change none of this.
C29_OneTimerPerKey ==
    \A k \in Keys :
        /\ Cardinality(TimersOf(k)) <= 1
        /\ \A t \in TimersOf(k) : t.remaining = DEBOUNCE_MS - debounceLog[k].since
        /\ debounceLog[k].started + Cardinality(TimersOf(k)) = debounceLog[k].bursts

\* three change events of one key in one burst have led to one pass, 100 ms
\* after the last, while events of the other key came in between
C29_Witness ==
    /\ debounceLog["p:s1"].events = 3
    /\ debounceLog["p:s1"].bursts = 1
    /\ debounceLog["p:s1"].started = 1
    /\ debounceLog["p:s1"].since = DEBOUNCE_MS
    /\ debounceLog["p:s2"].events >= 2
    /\ debounceLog["p:s2"].since < DEBOUNCE_MS
    /\ TimersOf("p:s2") # {}
====
